---------------------------- MODULE Spec2Model ----------------------------
(***************************************************************************)
(* Verification model of the poker hand-history ingestion pipeline.        *)
(*                                                                         *)
(* The module holds several specifications, one per subsystem:             *)
(*   SpecDriver   - main.py run_loop + scrape_hh/scrape.py main            *)
(*   SpecPipeline - scrape.py run_processing_scripts                       *)
(*   SpecLock     - scripts/1_build_heavy_analysis.py lock file, and the   *)
(*                  writes of the other stage scripts                      *)
(*   SpecMat      - scripts/8_materialise_dashboard.py rebuild_tables      *)
(*   SpecHttp     - app.py materializer endpoints                          *)
(*   SpecEtl      - the data effect of stages 1..7 on the analytic store   *)
(* Every specification fixes the variables of the other subsystems at      *)
(* their idle value.                                                       *)
(***************************************************************************)
EXTENDS Integers, Sequences, FiniteSets, TLC

VARIABLES
    \* ---- ingestion driver (main.py, scrape.py) ----
    pc,         \* position of the driver process
    day,        \* run_loop's `day`, as a day number counted from start_date
    hands,      \* PrimaryStore table hands: set of committed rows
    hand_meta,  \* PrimaryStore table hand_meta: set of committed rows
    rows,       \* scrape.main's local `rows` (pending batch)
    objs,       \* scrape.main's local `objs` (pending batch, hand objects)
    seq,        \* offset + i of the next hand the iterator yields
    iterEnd,    \* "open" while iter_hands can still yield, else why it ended
    scripts_ok, \* scrape.main's local `scripts_ok` ("unset" before any run)
    prev,       \* the last finished scrape.main: its date, how it ended, and
                \* the date.today() and time.sleep() of run_loop after it
    exitCode,   \* exit status of the driver process, -1 while it runs
    \* ---- script runner (scrape.py run_processing_scripts) ----
    skip_scripts, \* stage numbers of the script names given to --skip-scripts
    idx,          \* position of the `for script in scripts` loop
    running,      \* stage whose subprocess is running, 0 if none
    started,      \* log of the subprocess.run calls, in order
    rc,           \* per stage: "none", or how its subprocess ended
    result,       \* "running", or the value run_processing_scripts returned
    \* ---- stage processes and the lock file heavy_analysis.db.lock ----
    lpc,        \* per stage process: its position
    stage,      \* per stage process: the stage script it runs, 0 if not started
    lockOwner,  \* "none" if the lock file does not exist, else its creator
    writeLog,   \* the processes that wrote to the analytic store, in order
    \* ---- data of the analytic store under stages 1..8 ----
    srcHands,       \* PrimaryStore hands the stages read, in insertion order
    hand_info,      \* AnalyticStore hand_info: the imported hand ids
    actions,        \* AnalyticStore actions: sequence of rows, rowid = index
    preflop_scores, \* AnalyticStore preflop_scores: set of rows
    postflop_scores,\* AnalyticStore postflop_scores: set of rows
    epc,            \* the number of the stage to run next, 0 between runs
    lastRun,        \* how the last pipeline run ended: none, complete, aborted
    srcSeen,        \* Len(srcHands) when the last pipeline run started
    rerun,          \* the run in progress follows a complete run, no new hands
    \* ---- materializer (8_materialise_dashboard.py rebuild_tables) ----
    tables,     \* per materialized table: 0 if absent, else the build it is of
    mpc,        \* position of the materializer process
    mstep,      \* index of the table rebuild_tables works on
    gen,        \* number of the build in progress (or of the last one)
    before,     \* `tables` when the build in progress started
    view,       \* what a reader of the store saw last
    \* ---- web application (app.py) ----
    hpc,        \* per request: its position in the handler
    resp,       \* per request: the database_status it answered, or "none"
    matLock,    \* the file 8_materialise_dashboard.lock exists
    \* ---- parse_hand of 1_build_heavy_analysis.py, applied to one hand ----
    ph,         \* the hand object handed to parse_hand
    pout,       \* what parse_hand returned (or that it raised)
    \* ---- import loop of 1_build_heavy_analysis.py main ----
    isrc,       \* PrimaryStore hands as the stage's SELECT returns them
    ipc,        \* position of the stage process
    icur,       \* number of source rows the cursor has returned
    iwork,      \* the analytic store as the stage's connection sees it
    icommitted, \* the analytic store as committed
    idone,      \* the stage's local `done`
    inew,       \* the stage's local `new`
    ilast,      \* the position at which the process failed or was killed
    iruns,      \* number of times the stage was started
    \* ---- preflop scoring: 2_preflop_scores.py and map_preflop_scores ----
    fhand,      \* the hand: its preflop tokens, in order
    ranges_flat,\* the rows of the solver table ranges_flat
    fscores,    \* AnalyticStore preflop_scores: set of rows
    facts,      \* the hand's preflop rows of actions
    fpc,        \* the stage to run next
    \* ---- shutdown of the driver by a signal ----
    IS_RENDER,  \* main.py's IS_RENDER: the process runs in the hosted mode
    dpc,        \* "running" or "exited" (the driver process)
    dexit,      \* the driver's exit status, -1 while it runs
    checkpoint, \* "none", or the outcome of PRAGMA wal_checkpoint(TRUNCATE)
    walFiles,   \* the -wal and -shm files exist
    \* ---- stages 3, 4 and 6 on the action rows of one parsed hand ----
    gyaml,      \* action_rules.yml: "absent", or "nomatch" (no rule matches)
    gsize,      \* per action row: size_cat, "null" while not set
    glabel,     \* per action row: action_label, "null" while not set
    gbucket,    \* per action row: the size get_intention computed, or "none"
    grc,        \* exit status of the 4_action_label.py process, -1 before it
    gpc,        \* the stage to run next, 0 if none
    \* ---- player_summary of 8_materialise_dashboard.py ----
    sactions,   \* AnalyticStore actions: set of rows
    player_summary, \* the materialized table: set of rows
    spc,        \* "import" or "built"
    \* ---- the postflop loop of 7_input_scores.py main ----
    qactions,   \* AnalyticStore actions: sequence of rows, rowid = index
    qscores,    \* AnalyticStore postflop_scores: set of rows
    qpc,        \* position in the loop
    qinfo,      \* hand_info: hand_id -> hand_date
    postflop_updated_total  \* main: rows updated by the loop so far

driverVars == <<pc, day, hands, hand_meta, rows, objs, seq, iterEnd,
                scripts_ok, prev, exitCode>>

pipelineVars == <<skip_scripts, idx, running, started, rc, result>>

lockVars == <<lpc, stage, lockOwner, writeLog>>

store == <<hand_info, actions, preflop_scores, postflop_scores>>

etlVars == <<srcHands, store, epc, lastRun, srcSeen, rerun>>

matVars == <<tables, mpc, mstep, gen, before, view>>

httpVars == <<hpc, resp, matLock>>

parseVars == <<ph, pout>>

importVars == <<isrc, ipc, icur, iwork, icommitted, idone, inew, ilast, iruns>>

preflopVars == <<fhand, ranges_flat, fscores, facts, fpc>>

shutdownVars == <<IS_RENDER, dpc, dexit, checkpoint, walFiles>>

stageVars == <<gyaml, gsize, glabel, gbucket, grc, gpc>>

summaryVars == <<sactions, player_summary, spc>>

loopVars == <<qactions, qscores, qpc, qinfo, postflop_updated_total>>

vars == <<driverVars, pipelineVars, lockVars, etlVars, matVars, httpVars,
          parseVars, importVars, preflopVars, shutdownVars,
    stageVars, summaryVars, loopVars>>

notDriver == <<pipelineVars, lockVars, etlVars, matVars, httpVars,
               parseVars, importVars, preflopVars, shutdownVars,
    stageVars, summaryVars, loopVars>>

notPipeline == <<driverVars, lockVars, etlVars, matVars, httpVars,
                 parseVars, importVars, preflopVars, shutdownVars,
    stageVars, summaryVars, loopVars>>

notLock == <<driverVars, pipelineVars, etlVars, matVars, httpVars,
             parseVars, importVars, preflopVars, shutdownVars,
    stageVars, summaryVars, loopVars>>

notEtl == <<driverVars, pipelineVars, lockVars, matVars, httpVars,
            parseVars, importVars, preflopVars, shutdownVars,
    stageVars, summaryVars, loopVars>>

notMat == <<driverVars, pipelineVars, lockVars, etlVars, httpVars,
            parseVars, importVars, preflopVars, shutdownVars,
    stageVars, summaryVars, loopVars>>

notHttp == <<driverVars, pipelineVars, lockVars, etlVars, matVars,
             parseVars, importVars, preflopVars, shutdownVars,
    stageVars, summaryVars, loopVars>>

notParse == <<driverVars, pipelineVars, lockVars, etlVars, matVars, httpVars,
              importVars, preflopVars, shutdownVars,
    stageVars, summaryVars, loopVars>>

notImport == <<driverVars, pipelineVars, lockVars, etlVars, matVars, httpVars,
               parseVars, preflopVars, shutdownVars,
    stageVars, summaryVars, loopVars>>

notPreflop == <<driverVars, pipelineVars, lockVars, etlVars, matVars, httpVars,
                parseVars, importVars, shutdownVars,
    stageVars, summaryVars, loopVars>>

notShutdown == <<driverVars, pipelineVars, etlVars, matVars, httpVars,
                 parseVars, importVars, preflopVars,
    stageVars, summaryVars, loopVars>>

notStage == <<driverVars, pipelineVars, lockVars, etlVars, matVars, httpVars,
              importVars, preflopVars, shutdownVars, summaryVars, loopVars>>

notSummary == <<driverVars, pipelineVars, lockVars, etlVars, matVars, httpVars,
                parseVars, importVars, preflopVars, shutdownVars, stageVars,
                loopVars>>

notLoop == <<driverVars, pipelineVars, lockVars, etlVars, matVars, httpVars,
             parseVars, importVars, preflopVars, shutdownVars, stageVars,
             summaryVars>>

-----------------------------------------------------------------------------
(* Bounds of the model *)

MaxDay == 2
MaxHands == 3
BatchSize == 2
MaxWrites == 3
ScoreBatch == 3
ChunkLimit == 2
MaxBuilds == 2
MaxPieces == 4
MaxSrc == 3
MaxImportRuns == 2
CommitEvery == 2
MaxSummaryHands == 2
MaxLoopRows == 2
MaxLoopScores == 2
ScoreLimit == 1
RecentLimit == 3

-----------------------------------------------------------------------------
(***************************************************************************)
(* Ingestion driver                                                        *)
(***************************************************************************)

\* Hands the upstream API may return: two versions of hand "A", hand "B" as
\* an MTT hand and with both flags set, and three hands validate_hand rejects.
HandSpace ==
    { [stub |-> "A", blinds |-> "100", is_cash |-> TRUE,  is_mtt |-> FALSE, v |-> 1],
      [stub |-> "A", blinds |-> "100", is_cash |-> TRUE,  is_mtt |-> FALSE, v |-> 2],
      [stub |-> "B", blinds |-> "100", is_cash |-> FALSE, is_mtt |-> TRUE,  v |-> 1],
      [stub |-> "B", blinds |-> "100", is_cash |-> TRUE,  is_mtt |-> TRUE,  v |-> 1],
      [stub |-> "",  blinds |-> "100", is_cash |-> TRUE,  is_mtt |-> FALSE, v |-> 1],
      [stub |-> "A", blinds |-> "",    is_cash |-> TRUE,  is_mtt |-> FALSE, v |-> 1],
      [stub |-> "B", blinds |-> "100", is_cash |-> FALSE, is_mtt |-> FALSE, v |-> 1] }

\* main.py: time.sleep(600) of run_loop, the default of --sleep, and the
\* time.sleep(5) of run_loop's exception handler.
TodaySleep == 600
sleep_s == 300
ErrorSleep == 5

\* The values datetime.date.today() can have, as day numbers.
Todays == 0 .. (MaxDay + 1)

NoRun == [d |-> -1, how |-> "none", today |-> -1, secs |-> 0]

validate_hand(hand) ==
    IF hand.stub = "" THEN FALSE
    ELSE IF hand.blinds = "" THEN FALSE
    ELSE IF ~(hand.is_cash \/ hand.is_mtt) THEN FALSE
    ELSE TRUE

check_duplicate(table, hand_id) == \E r \in table : r.id = hand_id

\* A mutation of InsertOrIgnore: a plain insert into a table without a key.
InsertAlways(table, r) == table \cup {r}

\* One "INSERT OR IGNORE" keyed on id.
InsertOrIgnore(table, r) ==
    IF \E x \in table : x.id = r.id THEN table ELSE table \cup {r}

RECURSIVE ExecuteMany(_, _)
ExecuteMany(table, rs) ==
    IF rs = <<>> THEN table
    ELSE ExecuteMany(InsertOrIgnore(table, Head(rs)), Tail(rs))

\* Store.insert_batch: executemany INSERT OR IGNORE, then commit.
insert_batch(table, rs) == ExecuteMany(table, rs)

MetaRow(h) == [id |-> h.stub, is_cash |-> h.is_cash, is_mtt |-> h.is_mtt]

RECURSIVE MetaRows(_)
MetaRows(os) ==
    IF os = <<>> THEN <<>> ELSE <<MetaRow(Head(os))>> \o MetaRows(Tail(os))

\* bulk_from_objects: INSERT OR IGNORE INTO hand_meta, then commit.
bulk_from_objects(table, os) == ExecuteMany(table, MetaRows(os))

InRun == {"iter", "meta", "scripts"}

DriverInit ==
    /\ pc = "start"
    /\ day = 0
    /\ hands = {}
    /\ hand_meta = {}
    /\ rows = <<>>
    /\ objs = <<>>
    /\ seq = 0
    /\ iterEnd = "open"
    /\ scripts_ok = "unset"
    /\ prev = NoRun
    /\ exitCode = -1

\* scrape.main returns to run_loop (main.py 447-457): the loop advances the
\* day and sleeps.
ReturnToLoop(how) ==
    /\ day' = day + 1
    /\ \E today \in Todays :
         prev' = [d |-> day, how |-> how, today |-> today,
                  secs |-> IF day' = today THEN TodaySleep ELSE sleep_s]
    /\ pc' = "sleep_interval"
    /\ rows' = <<>>
    /\ objs' = <<>>

\* An exception leaves scrape.main; run_loop's handler (main.py 462-466)
\* advances the day and sleeps 5 seconds.
ExceptionToLoop(how) ==
    /\ prev' = [d |-> day, how |-> how, today |-> -1, secs |-> ErrorSleep]
    /\ day' = day + 1
    /\ pc' = "sleep_5"
    /\ rows' = <<>>
    /\ objs' = <<>>

\* run_loop calls run_fetch_process; scrape.main builds Api, which logs in.
Login ==
    /\ pc = "start"
    /\ day < MaxDay
    /\ \E outcome \in {"ok", "no_credentials", "no_csrf", "http_error"} :
        IF outcome = "ok"
        THEN /\ pc' = "iter"
             /\ rows' = <<>>
             /\ objs' = <<>>
             /\ seq' = 0
             /\ iterEnd' = "open"
             /\ scripts_ok' = "unset"
             /\ UNCHANGED <<day, prev>>
        ELSE /\ ExceptionToLoop("loginfail")
             /\ UNCHANGED <<seq, iterEnd, scripts_ok>>
    /\ UNCHANGED <<hands, hand_meta, exitCode>>
    /\ UNCHANGED notDriver

\* The commit of a full (or the last) batch starts: store.insert_batch(rows).
\* A sqlite error here is an exception that leaves scrape.main.
BeginCommit(rs, os) ==
    \/ /\ hands' = insert_batch(hands, rs)
       /\ rows' = rs
       /\ objs' = os
       /\ pc' = "meta"
       /\ UNCHANGED <<day, prev>>
    \/ /\ ExceptionToLoop("exception")
       /\ UNCHANGED hands

\* One turn of `for seq, hand in api.iter_hands(date)` (scrape.py 450-473).
IterYield ==
    /\ pc = "iter"
    /\ iterEnd = "open"
    /\ seq < MaxHands
    /\ \E hand \in HandSpace :
        /\ seq' = seq + 1
        /\ IF ~validate_hand(hand) \/ check_duplicate(hands, hand.stub)
           THEN UNCHANGED <<pc, day, hands, rows, objs, prev>>
           ELSE LET rs == Append(rows, [id |-> hand.stub, hand_date |-> day,
                                        seq |-> seq, raw_json |-> hand])
                    os == Append(objs, hand)
                IN  IF Len(rs) >= BatchSize
                    THEN BeginCommit(rs, os)
                    ELSE /\ rows' = rs
                         /\ objs' = os
                         /\ UNCHANGED <<pc, day, hands, prev>>
    /\ UNCHANGED <<hand_meta, iterEnd, scripts_ok, exitCode>>
    /\ UNCHANGED notDriver

\* iter_hands ends: the `next` chain is exhausted, or a request fails
\* (scrape.py 322-370); scrape.main goes on to the last batch (489-503).
IterEnd ==
    /\ pc = "iter"
    /\ iterEnd = "open"
    /\ \E why \in {"exhausted", "notfound", "neterror", "badjson"} :
        /\ iterEnd' = why
        /\ IF rows # <<>>
           THEN BeginCommit(rows, objs)
           ELSE /\ ReturnToLoop(IF why = "exhausted" THEN "complete" ELSE why)
                /\ UNCHANGED hands
    /\ UNCHANGED <<hand_meta, seq, scripts_ok, exitCode>>
    /\ UNCHANGED notDriver

\* bulk_from_objects(store.con, objs) (scrape.py 474, 494).
CommitMeta ==
    /\ pc = "meta"
    /\ hand_meta' = bulk_from_objects(hand_meta, objs)
    /\ pc' = "scripts"
    /\ UNCHANGED <<day, hands, rows, objs, seq, iterEnd, scripts_ok, prev, exitCode>>
    /\ UNCHANGED notDriver

\* A mutation of AfterScripts: the result of the stages is ignored.
AfterScriptsIgnoreFailure(ok) ==
    /\ scripts_ok' = (IF ok THEN "True" ELSE "False")
    /\ IF iterEnd = "open"
       THEN /\ rows' = <<>>
            /\ objs' = <<>>
            /\ pc' = "iter"
            /\ UNCHANGED <<day, prev>>
       ELSE ReturnToLoop(IF iterEnd = "exhausted" THEN "complete" ELSE iterEnd)

\* The code's handling of run_processing_scripts' result (scrape.py 480-486,
\* 499-503).
AfterScripts(ok) ==
    /\ scripts_ok' = (IF ok THEN "True" ELSE "False")
    /\ IF ~ok
       THEN ReturnToLoop("stagefail")
       ELSE IF iterEnd = "open"
            THEN /\ rows' = <<>>
                 /\ objs' = <<>>
                 /\ pc' = "iter"
                 /\ UNCHANGED <<day, prev>>
            ELSE ReturnToLoop(IF iterEnd = "exhausted" THEN "complete" ELSE iterEnd)

\* scripts_ok = run_processing_scripts(...): the stages run as subprocesses
\* and the call returns True or False.
RunScripts ==
    /\ pc = "scripts"
    /\ \E ok \in BOOLEAN : AfterScripts(ok)
    /\ UNCHANGED <<hands, hand_meta, seq, iterEnd, exitCode>>
    /\ UNCHANGED notDriver

\* time.sleep returns; the loop starts the next date.
Wake ==
    /\ pc \in {"sleep_interval", "sleep_5"}
    /\ pc' = "start"
    /\ UNCHANGED <<day, hands, hand_meta, rows, objs, seq, iterEnd, scripts_ok,
                   prev, exitCode>>
    /\ UNCHANGED notDriver

\* SIGINT or SIGTERM: signal_handler calls sys.exit(0) (main.py 413-435).
Signal ==
    /\ pc # "exit"
    /\ pc' = "exit"
    /\ exitCode' = 0
    /\ UNCHANGED <<day, hands, hand_meta, rows, objs, seq, iterEnd, scripts_ok, prev>>
    /\ UNCHANGED notDriver

DriverNext ==
    \/ Login
    \/ IterYield
    \/ IterEnd
    \/ CommitMeta
    \/ RunScripts
    \/ Wake
    \/ Signal

-----------------------------------------------------------------------------
(***************************************************************************)
(* Script runner: find_processing_scripts and run_processing_scripts       *)
(***************************************************************************)

\* The numbered scripts in scrape_hh/scripts: 1_*.py .. 8_*.py.
Stages == 1..8

\* The names find_processing_scripts globs for: "{i}_*.py", i in range(1, 11).
GlobRange == 1..10

\* A script name up to and including the "_" after its number, as character
\* codes: the digits, then "_" (which sorts after every digit).
NameKey(n) == IF n < 10 THEN <<n, 99>> ELSE <<n \div 10, n % 10, 99>>

\* Python's string order on two keys.
RECURSIVE LexLess(_, _)
LexLess(a, b) ==
    IF a = <<>> THEN b # <<>>
    ELSE IF b = <<>> THEN FALSE
    ELSE IF Head(a) # Head(b) THEN Head(a) < Head(b)
    ELSE LexLess(Tail(a), Tail(b))

\* sorted(scripts)
RECURSIVE sorted(_)
sorted(S) ==
    IF S = {} THEN <<>>
    ELSE LET m == CHOOSE x \in S : \A y \in S \ {x} : LexLess(NameKey(x), NameKey(y))
         IN  <<m>> \o sorted(S \ {m})

find_processing_scripts == sorted({i \in GlobRange : i \in Stages})

PipelineIdle ==
    /\ skip_scripts = {}
    /\ idx = 0
    /\ running = 0
    /\ started = <<>>
    /\ rc = [n \in Stages |-> "none"]
    /\ result = "idle"

DriverIdle ==
    /\ pc = "off"
    /\ day = 0
    /\ hands = {}
    /\ hand_meta = {}
    /\ rows = <<>>
    /\ objs = <<>>
    /\ seq = 0
    /\ iterEnd = "open"
    /\ scripts_ok = "unset"
    /\ prev = NoRun
    /\ exitCode = -1

\* run_processing_scripts is entered with some --skip-scripts list.
PipelineInit ==
    /\ skip_scripts \in SUBSET Stages
    /\ idx = 1
    /\ running = 0
    /\ started = <<>>
    /\ rc = [n \in Stages |-> "none"]
    /\ result = "running"

\* `if script_name in skip_scripts: continue`
SkipScript ==
    /\ result = "running"
    /\ running = 0
    /\ idx <= Len(find_processing_scripts)
    /\ find_processing_scripts[idx] \in skip_scripts
    /\ idx' = idx + 1
    /\ UNCHANGED <<skip_scripts, running, started, rc, result>>
    /\ UNCHANGED notPipeline

\* subprocess.run([sys.executable, str(script)], ...) is called.
StartScript ==
    /\ result = "running"
    /\ running = 0
    /\ idx <= Len(find_processing_scripts)
    /\ find_processing_scripts[idx] \notin skip_scripts
    /\ running' = find_processing_scripts[idx]
    /\ started' = Append(started, find_processing_scripts[idx])
    /\ UNCHANGED <<skip_scripts, idx, rc, result>>
    /\ UNCHANGED notPipeline

\* A mutation of OnExit: the loop goes on whatever the outcome.
OnExitContinue(outcome) ==
    /\ idx' = idx + 1
    /\ UNCHANGED result

\* What the loop does with the outcome of subprocess.run (scrape.py 235-254).
OnExit(outcome) ==
    IF outcome = "0"
    THEN /\ idx' = idx + 1
         /\ UNCHANGED result
    ELSE /\ result' = "False"
         /\ UNCHANGED idx

\* subprocess.run returns (exit code 0 or not) or raises TimeoutExpired or
\* another exception.
ScriptExit ==
    /\ result = "running"
    /\ running # 0
    /\ \E outcome \in {"0", "nonzero", "timeout", "exception"} :
        /\ rc' = [rc EXCEPT ![running] = outcome]
        /\ OnExit(outcome)
    /\ running' = 0
    /\ UNCHANGED <<skip_scripts, started>>
    /\ UNCHANGED notPipeline

\* The loop is over: `return True`.
ReturnTrue ==
    /\ result = "running"
    /\ running = 0
    /\ idx > Len(find_processing_scripts)
    /\ result' = "True"
    /\ UNCHANGED <<skip_scripts, idx, running, started, rc>>
    /\ UNCHANGED notPipeline

PipelineNext ==
    \/ SkipScript
    \/ StartScript
    \/ ScriptExit
    \/ ReturnTrue

-----------------------------------------------------------------------------
(***************************************************************************)
(* Stage processes writing to the analytic store, and the lock file of     *)
(* 1_build_heavy_analysis.py                                               *)
(***************************************************************************)

\* Stage-script processes that may run at the same time (two pipelines, or
\* a pipeline and a materializer started by the web application).
LockProcs == {"p1", "p2"}

LockIdle ==
    /\ lpc = [p \in LockProcs |-> "idle"]
    /\ stage = [p \in LockProcs |-> 0]
    /\ lockOwner = "none"
    /\ writeLog = <<>>

LockInit == LockIdle

\* A position in which a process executes statements that write to
\* heavy_analysis.db.
Writing(p) == lpc[p] \in {"optimize", "held", "write"}

\* A stage script is started. Stage 1 begins with _run_optimize_indexes();
\* the scripts of stages 2..8 open the database and write.
StartStage ==
    \E p \in LockProcs, n \in Stages :
        /\ lpc[p] = "idle"
        /\ stage' = [stage EXCEPT ![p] = n]
        /\ lpc' = [lpc EXCEPT ![p] = IF n = 1 THEN "optimize" ELSE "write"]
        /\ UNCHANGED <<lockOwner, writeLog>>
        /\ UNCHANGED notLock

\* One write (a DDL or DML statement) of a process to the analytic store.
WriteStore ==
    \E p \in LockProcs :
        /\ Writing(p)
        /\ Len(writeLog) < MaxWrites
        /\ writeLog' = Append(writeLog, p)
        /\ UNCHANGED <<lpc, stage, lockOwner>>
        /\ UNCHANGED notLock

\* Stage 1: optimize_indexes is over, main goes on to _obtain_lock.
OptimizeDone ==
    \E p \in LockProcs :
        /\ lpc[p] = "optimize"
        /\ lpc' = [lpc EXCEPT ![p] = "obtain"]
        /\ UNCHANGED <<stage, lockOwner, writeLog>>
        /\ UNCHANGED notLock

\* A mutation of os_open: the flags lack O_EXCL, the call succeeds on an
\* existing file.
os_open_no_excl(p) == TRUE

\* os.open(lock_file, O_CREAT | O_EXCL | O_RDWR): succeeds iff the file does
\* not exist, and creates it atomically.
os_open(p) == lockOwner = "none"

\* One turn of _obtain_lock's loop: the lock file is created and the path
\* returned, or FileExistsError: RuntimeError once LOCK_WAIT_SEC of wall-clock
\* time have passed, else sleep 5 s.
ObtainLock ==
    \E p \in LockProcs :
        /\ lpc[p] = "obtain"
        /\ IF os_open(p)
           THEN /\ lockOwner' = p
                /\ lpc' = [lpc EXCEPT ![p] = "held"]
           ELSE /\ UNCHANGED lockOwner
                /\ \E expired \in BOOLEAN :
                    lpc' = [lpc EXCEPT ![p] = IF expired THEN "failed" ELSE "sleep"]
        /\ UNCHANGED <<stage, writeLog>>
        /\ UNCHANGED notLock

\* time.sleep(5) in _obtain_lock returns.
LockRetry ==
    \E p \in LockProcs :
        /\ lpc[p] = "sleep"
        /\ lpc' = [lpc EXCEPT ![p] = "obtain"]
        /\ UNCHANGED <<stage, lockOwner, writeLog>>
        /\ UNCHANGED notLock

\* Stage 1's try block ends, normally or by an exception; the finally clause
\* calls _release_lock: os.remove(lock_path), FileNotFoundError ignored.
ReleaseLock ==
    \E p \in LockProcs, ok \in BOOLEAN :
        /\ lpc[p] = "held"
        /\ lockOwner' = "none"
        /\ lpc' = [lpc EXCEPT ![p] = IF ok THEN "done" ELSE "failed"]
        /\ UNCHANGED <<stage, writeLog>>
        /\ UNCHANGED notLock

\* A script of stages 2..8 ends, with exit status 0 or not.
StageExit ==
    \E p \in LockProcs, ok \in BOOLEAN :
        /\ lpc[p] = "write"
        /\ lpc' = [lpc EXCEPT ![p] = IF ok THEN "done" ELSE "failed"]
        /\ UNCHANGED <<stage, lockOwner, writeLog>>
        /\ UNCHANGED notLock

\* The process is killed (subprocess.run's timeout kills the child): no
\* finally clause runs.
KillStage ==
    \E p \in LockProcs :
        /\ lpc[p] \in {"optimize", "obtain", "sleep", "held", "write"}
        /\ lpc' = [lpc EXCEPT ![p] = "killed"]
        /\ UNCHANGED <<stage, lockOwner, writeLog>>
        /\ UNCHANGED notLock

\* The process has ended; a later pipeline run starts a new one.
Reap ==
    \E p \in LockProcs :
        /\ lpc[p] \in {"done", "failed", "killed"}
        /\ lpc' = [lpc EXCEPT ![p] = "idle"]
        /\ stage' = [stage EXCEPT ![p] = 0]
        /\ UNCHANGED <<lockOwner, writeLog>>
        /\ UNCHANGED notLock

LockNext ==
    \/ StartStage
    \/ WriteStore
    \/ OptimizeDone
    \/ ObtainLock
    \/ LockRetry
    \/ ReleaseLock
    \/ StageExit
    \/ KillStage
    \/ Reap

-----------------------------------------------------------------------------
(***************************************************************************)
(* The data of the analytic store under the stage scripts 1..8             *)
(***************************************************************************)

\* SQL NULL. A derived value is kept as the term of the column and the row it
\* was computed from: a stage computes it from the row's own Stage 1 columns,
\* so equal terms are equal values.
NULL == <<>>

Term(col, r) == <<col, r.hand_id, r.ord>>

\* One action of a hand as Stage 1 stores it: street, position, action
\* token; solver: ranges_flat has a frequency for it (Stage 2); node: the
\* hand's partial scores hold a node that matches it (Stage 7).
Act(st, pos, a, solver, node) ==
    [street |-> st, position |-> pos, action |-> a, solver |-> solver, node |-> node]

\* The hands of the primary store the stages may meet.
EtlHandSpace ==
    { [id |-> "H1", hand_date |-> 1, six |-> TRUE, partial |-> TRUE,
       acts |-> << Act("preflop", "BTN", "r", TRUE, FALSE),
                   Act("preflop", "BB", "c", FALSE, FALSE),
                   Act("flop", "BB", "x", FALSE, TRUE),
                   Act("flop", "BTN", "r", FALSE, FALSE) >>],
      [id |-> "H2", hand_date |-> 1, six |-> FALSE, partial |-> FALSE,
       acts |-> << Act("preflop", "BTN", "r", TRUE, FALSE),
                   Act("preflop", "BB", "f", TRUE, FALSE) >>],
      [id |-> "H3", hand_date |-> 2, six |-> TRUE, partial |-> TRUE,
       acts |-> << Act("preflop", "BB", "c", TRUE, FALSE),
                   Act("flop", "BB", "b", FALSE, FALSE),
                   Act("flop", "BTN", "c", FALSE, TRUE) >>] }

EtlIdle ==
    /\ srcHands = <<>>
    /\ hand_info = {}
    /\ actions = <<>>
    /\ preflop_scores = {}
    /\ postflop_scores = {}
    /\ epc = -1
    /\ lastRun = "none"
    /\ srcSeen = 0
    /\ rerun = FALSE

EtlInit ==
    /\ srcHands = <<>>
    /\ hand_info = {}
    /\ actions = <<>>
    /\ preflop_scores = {}
    /\ postflop_scores = {}
    /\ epc = 0
    /\ lastRun = "none"
    /\ srcSeen = 0
    /\ rerun = FALSE

Range(f) == {f[i] : i \in DOMAIN f}

\* The rows parse_hand makes of one hand, derived columns NULL.
ActionRows(h) ==
    [i \in 1..Len(h.acts) |->
        [hand_id |-> h.id, ord |-> i, hand_date |-> h.hand_date,
         street |-> h.acts[i].street, position |-> h.acts[i].position,
         action |-> h.acts[i].action,
         size_cat |-> NULL, action_label |-> NULL, j_score |-> NULL,
         intention |-> NULL, preflop_score |-> NULL, postflop_score |-> NULL]]

\* The postflop_scores rows of one hand (score_rows of parse_hand).
ScoreRows(h) ==
    IF h.partial
    THEN {[hand_id |-> h.id, ord |-> i] : i \in {j \in 1..Len(h.acts) : h.acts[j].node}}
    ELSE {}

\* Stage 1 import loop: every hand of the primary store not in done_ids.
RECURSIVE ImportActions(_, _, _)
ImportActions(hs, done, acc) ==
    IF hs = <<>> THEN acc
    ELSE IF Head(hs).id \in done THEN ImportActions(Tail(hs), done, acc)
    ELSE ImportActions(Tail(hs), done, acc \o ActionRows(Head(hs)))

\* A scraper run has committed a new hand to the primary store.
NewHand ==
    /\ epc = 0
    /\ \E h \in EtlHandSpace :
        /\ h \notin Range(srcHands)
        /\ srcHands' = Append(srcHands, h)
    /\ UNCHANGED <<store, epc, lastRun, srcSeen, rerun>>
    /\ UNCHANGED notEtl

\* run_processing_scripts starts with stage 1.
StartRun ==
    /\ epc = 0
    /\ srcHands # <<>>
    /\ epc' = 1
    /\ rerun' = (lastRun = "complete" /\ srcSeen = Len(srcHands))
    /\ srcSeen' = Len(srcHands)
    /\ UNCHANGED <<srcHands, store, lastRun>>
    /\ UNCHANGED notEtl

\* A stage script exits non-zero before it writes; the run is over.
StageFails ==
    /\ epc \in 1..8
    /\ epc' = 0
    /\ lastRun' = "aborted"
    /\ UNCHANGED <<srcHands, store, srcSeen, rerun>>
    /\ UNCHANGED notEtl

\* 1_build_heavy_analysis.py main.
Stage1 ==
    /\ epc = 1
    /\ actions' = ImportActions(srcHands, hand_info, actions)
    /\ postflop_scores' = postflop_scores \cup
         UNION {ScoreRows(h) : h \in {x \in Range(srcHands) : x.id \notin hand_info}}
    /\ hand_info' = hand_info \cup {h.id : h \in Range(srcHands)}
    /\ epc' = 2
    /\ UNCHANGED <<srcHands, preflop_scores, lastRun, srcSeen, rerun>>
    /\ UNCHANGED notEtl

\* The preflop_scores rows Stage 2 makes of one hand: one per actor of the
\* breadcrumb, freq NULL where ranges_flat has no row.
PreflopRows(h) ==
    {[hand_id |-> h.id, position |-> h.acts[i].position,
      freq |-> IF h.acts[i].solver THEN <<"freq", h.id, h.acts[i].position>> ELSE NULL]
        : i \in {j \in 1..Len(h.acts) : h.acts[j].street = "preflop"}}

\* 2_preflop_scores.py main: hands not yet in preflop_scores and six-handed.
Stage2 ==
    /\ epc = 2
    /\ LET done == {r.hand_id : r \in preflop_scores}
           todo == {h \in Range(srcHands) : ~(h.id \in done \/ ~h.six)}
       IN  preflop_scores' = preflop_scores \cup UNION {PreflopRows(h) : h \in todo}
    /\ epc' = 3
    /\ UNCHANGED <<srcHands, hand_info, actions, postflop_scores, lastRun, srcSeen, rerun>>
    /\ UNCHANGED notEtl

\* The row with one column set.
SetCol(r, col, v) == [r EXCEPT ![col] = v]

\* 3_size_cat.py main: raises and bets without a size_cat.
Stage3 ==
    /\ epc = 3
    /\ actions' = [i \in DOMAIN actions |->
         IF actions[i].size_cat = NULL /\ actions[i].action \in {"r", "b"}
         THEN SetCol(actions[i], "size_cat", Term("size_cat", actions[i]))
         ELSE actions[i]]
    /\ epc' = 4
    /\ UNCHANGED <<srcHands, hand_info, preflop_scores, postflop_scores, lastRun,
                   srcSeen, rerun>>
    /\ UNCHANGED notEtl

\* 4_action_label.py main: every row of the hands that have a row without
\* action_label.
Stage4 ==
    /\ epc = 4
    /\ LET hids == {actions[i].hand_id : i \in {j \in DOMAIN actions :
                                                actions[j].action_label = NULL}}
       IN  actions' = [i \in DOMAIN actions |->
             IF actions[i].hand_id \in hids
             THEN SetCol(actions[i], "action_label", Term("action_label", actions[i]))
             ELSE actions[i]]
    /\ epc' = 5
    /\ UNCHANGED <<srcHands, hand_info, preflop_scores, postflop_scores, lastRun,
                   srcSeen, rerun>>
    /\ UNCHANGED notEtl

\* The first n elements of a set of rowids.
FirstN(S, n) == {i \in S : Cardinality({j \in S : j <= i}) <= n}

\* The rows 5_add_j_score.py main updates. Its loop iterates the cursor of
\* SQL_GET and flushes each full batch with executemany on the same cursor,
\* which ends the iteration: with a full batch of rows to score only the
\* first batch is scored, else all of them are.
ScoredRows(acts) ==
    LET todo == {i \in DOMAIN acts : acts[i].j_score = NULL}
    IN  IF Cardinality(todo) >= ScoreBatch THEN FirstN(todo, ScoreBatch) ELSE todo

\* 5_add_j_score.py main.
Stage5 ==
    /\ epc = 5
    /\ actions' = [i \in DOMAIN actions |->
         IF i \in ScoredRows(actions)
         THEN SetCol(actions[i], "j_score", Term("j_score", actions[i]))
         ELSE actions[i]]
    /\ epc' = 6
    /\ UNCHANGED <<srcHands, hand_info, preflop_scores, postflop_scores, lastRun,
                   srcSeen, rerun>>
    /\ UNCHANGED notEtl

\* 6_intention.py main: rows without intention that have a label and a
\* j_score.
Stage6 ==
    /\ epc = 6
    /\ actions' = [i \in DOMAIN actions |->
         IF /\ actions[i].intention = NULL
            /\ actions[i].action_label # NULL
            /\ actions[i].j_score # NULL
         THEN SetCol(actions[i], "intention", Term("intention", actions[i]))
         ELSE actions[i]]
    /\ epc' = 7
    /\ UNCHANGED <<srcHands, hand_info, preflop_scores, postflop_scores, lastRun,
                   srcSeen, rerun>>
    /\ UNCHANGED notEtl

\* 7_input_scores.py map_preflop_scores: preflop r/c/f rows without a score
\* take the freq of the preflop_scores row of their hand and position.
map_preflop_scores(acts) ==
    [i \in DOMAIN acts |->
        LET hit == {ps \in preflop_scores :
                        /\ ps.freq # NULL
                        /\ ps.hand_id = acts[i].hand_id
                        /\ ps.position = acts[i].position}
        IN  IF /\ acts[i].street = "preflop"
               /\ acts[i].preflop_score = NULL
               /\ acts[i].action \in {"r", "c", "f"}
               /\ hit # {}
            THEN SetCol(acts[i], "preflop_score", (CHOOSE ps \in hit : TRUE).freq)
            ELSE acts[i]]

Max(S) == CHOOSE x \in S : \A y \in S : y <= x

\* The three latest hand dates (ORDER BY hand_date DESC LIMIT 3).
RecentDates(acts) ==
    LET ds == {acts[i].hand_date : i \in DOMAIN acts}
    IN  {d \in ds : Cardinality({e \in ds : e > d}) < 3}

\* The rows map_postflop_scores selects for a set of dates, LIMIT applied.
PostflopSelect(acts, dates) ==
    FirstN({i \in DOMAIN acts :
                /\ acts[i].street # "preflop"
                /\ acts[i].postflop_score = NULL
                /\ acts[i].action \in {"r", "c", "f", "x"}
                /\ acts[i].hand_date \in dates
                /\ \E ps \in postflop_scores : ps.hand_id = acts[i].hand_id},
           ChunkLimit)

\* 7_input_scores.py map_postflop_scores: the rows of the latest date with
\* postflop scores, else of the three latest dates; a selected row takes the
\* score of the node that matches it.
map_postflop_scores(acts) ==
    LET scored == {acts[i].hand_date : i \in {j \in DOMAIN acts :
                       \E ps \in postflop_scores : ps.hand_id = acts[j].hand_id}}
    IN  IF scored = {} THEN acts
        ELSE LET first == PostflopSelect(acts, {Max(scored)})
                 sel == IF first # {} THEN first
                        ELSE PostflopSelect(acts, RecentDates(acts))
             IN  [i \in DOMAIN acts |->
                    IF /\ i \in sel
                       /\ \E ps \in postflop_scores :
                            ps.hand_id = acts[i].hand_id /\ ps.ord = acts[i].ord
                    THEN SetCol(acts[i], "postflop_score", Term("action_score", acts[i]))
                    ELSE acts[i]]

\* The loop of 7_input_scores.py main (676-687).
RECURSIVE PostflopLoop(_)
PostflopLoop(acts) ==
    LET remaining == {i \in DOMAIN acts :
                        /\ acts[i].street # "preflop"
                        /\ acts[i].postflop_score = NULL
                        /\ acts[i].action \in {"r", "c", "f", "x"}}
        next == map_postflop_scores(acts)
    IN  IF remaining = {} THEN acts
        ELSE IF next = acts THEN acts
        ELSE PostflopLoop(next)

\* 7_input_scores.py main, as the driver runs it (without --normalize).
Stage7 ==
    /\ epc = 7
    /\ actions' = PostflopLoop(map_preflop_scores(actions))
    /\ epc' = 8
    /\ UNCHANGED <<srcHands, hand_info, preflop_scores, postflop_scores, lastRun,
                   srcSeen, rerun>>
    /\ UNCHANGED notEtl

\* 8_materialise_dashboard.py: rebuilds the materialized tables only.
Stage8 ==
    /\ epc = 8
    /\ epc' = 0
    /\ lastRun' = "complete"
    /\ UNCHANGED <<srcHands, store, srcSeen, rerun>>
    /\ UNCHANGED notEtl

EtlNext ==
    \/ NewHand
    \/ StartRun
    \/ StageFails
    \/ Stage1
    \/ Stage2
    \/ Stage3
    \/ Stage4
    \/ Stage5
    \/ Stage6
    \/ Stage7
    \/ Stage8

-----------------------------------------------------------------------------
(***************************************************************************)
(* Materializer: 8_materialise_dashboard.py rebuild_tables                 *)
(***************************************************************************)

\* The materialized tables, in the order rebuild_tables rebuilds them.
TableOrder == <<"dashboard_summary", "top25_players", "player_summary">>

MatTables == {TableOrder[i] : i \in 1..Len(TableOrder)}

NoTables == [t \in MatTables |-> 0]

MatIdle ==
    /\ tables = NoTables
    /\ mpc = "off"
    /\ mstep = 0
    /\ gen = 0
    /\ before = NoTables
    /\ view = [seen |-> NoTables, prior |-> NoTables]

MatInit ==
    /\ tables = NoTables
    /\ mpc = "idle"
    /\ mstep = 0
    /\ gen = 0
    /\ before = NoTables
    /\ view = [seen |-> NoTables, prior |-> NoTables]

\* The script is started: get_db, rebuild_tables is entered.
StartBuild ==
    /\ mpc = "idle"
    /\ gen < MaxBuilds
    /\ gen' = gen + 1
    /\ before' = tables
    /\ mpc' = "check"
    /\ UNCHANGED <<tables, mstep, view>>
    /\ UNCHANGED notMat

\* SELECT COUNT(*) FROM actions and PRAGMA table_info (251-266); an error is
\* re-raised.
CheckActions ==
    /\ mpc = "check"
    /\ \E ok \in BOOLEAN :
        IF ok THEN mpc' = "drop" /\ mstep' = 1
              ELSE mpc' = "failed" /\ UNCHANGED mstep
    /\ UNCHANGED <<tables, gen, before, view>>
    /\ UNCHANGED notMat

\* cur.executescript("DROP TABLE IF EXISTS t;"): executescript commits, and
\* the statement runs outside any transaction.
DropTable ==
    /\ mpc = "drop"
    /\ \E ok \in BOOLEAN :
        IF ok THEN /\ tables' = [tables EXCEPT ![TableOrder[mstep]] = 0]
                   /\ mpc' = "create"
              ELSE /\ mpc' = "failed"
                   /\ UNCHANGED tables
    /\ UNCHANGED <<mstep, gen, before, view>>
    /\ UNCHANGED notMat

\* cur.execute("CREATE TABLE t AS ..."): a DDL statement, for which sqlite3
\* opens no transaction; an error is re-raised.
CreateTable ==
    /\ mpc = "create"
    /\ \E ok \in BOOLEAN :
        IF ok THEN /\ tables' = [tables EXCEPT ![TableOrder[mstep]] = gen]
                   /\ IF mstep = 1
                      THEN mpc' = "drop" /\ mstep' = 2
                      ELSE mpc' = "index" /\ UNCHANGED mstep
              ELSE /\ mpc' = "failed"
                   /\ UNCHANGED <<tables, mstep>>
    /\ UNCHANGED <<gen, before, view>>
    /\ UNCHANGED notMat

\* CREATE INDEX on top25_players or player_summary.
CreateIndex ==
    /\ mpc = "index"
    /\ \E ok \in BOOLEAN :
        IF ok THEN IF mstep < Len(TableOrder)
                   THEN mpc' = "drop" /\ mstep' = mstep + 1
                   ELSE mpc' = "indexes" /\ UNCHANGED mstep
              ELSE mpc' = "failed" /\ UNCHANGED mstep
    /\ UNCHANGED <<tables, gen, before, view>>
    /\ UNCHANGED notMat

\* cur.executescript(DDL_INDEXES); con.commit() (299-305).
FinalIndexes ==
    /\ mpc = "indexes"
    /\ \E ok \in BOOLEAN : mpc' = IF ok THEN "done" ELSE "failed"
    /\ UNCHANGED <<tables, mstep, gen, before, view>>
    /\ UNCHANGED notMat

\* The process ends: exit status 0, or sys.exit(1) after an exception.
BuildExit ==
    /\ mpc \in {"done", "failed"}
    /\ mpc' = "idle"
    /\ UNCHANGED <<tables, mstep, gen, before, view>>
    /\ UNCHANGED notMat

\* Another connection reads the materialized tables.
ReadTables ==
    /\ mpc # "off"
    /\ view' = [seen |-> tables, prior |-> before]
    /\ UNCHANGED <<tables, mpc, mstep, gen, before>>
    /\ UNCHANGED notMat

MatNext ==
    \/ StartBuild
    \/ CheckActions
    \/ DropTable
    \/ CreateTable
    \/ CreateIndex
    \/ FinalIndexes
    \/ BuildExit
    \/ ReadTables

-----------------------------------------------------------------------------
(***************************************************************************)
(* Web application: the endpoints of app.py that start the materializer    *)
(***************************************************************************)

\* Requests in progress at the same time.
HttpReqs == {"r1", "r2"}

HttpIdle ==
    /\ hpc = [r \in HttpReqs |-> "off"]
    /\ resp = [r \in HttpReqs |-> "none"]
    /\ matLock = FALSE

HttpInit ==
    /\ hpc = [r \in HttpReqs |-> "idle"]
    /\ resp = [r \in HttpReqs |-> "none"]
    /\ matLock = FALSE

\* The requests whose handler has a materializer subprocess running.
Builders == {r \in HttpReqs : hpc[r] \in {"building", "fallback", "bg_building"}}

\* The handler returns with a database_status.
Answer(r, status) ==
    /\ hpc' = [hpc EXCEPT ![r] = "done"]
    /\ resp' = [resp EXCEPT ![r] = status]

\* GET /api/dashboard-summary arrives (app.py 177-196).
GetDashboard ==
    \E r \in HttpReqs, ready \in BOOLEAN :
        /\ hpc[r] = "idle"
        /\ IF ready
           THEN hpc' = [hpc EXCEPT ![r] = "check_lock"] /\ UNCHANGED resp
           ELSE Answer(r, "building")
        /\ UNCHANGED matLock
        /\ UNCHANGED notHttp

\* `if lock_path.exists(): return {... "materializing"}` (app.py 224-238).
CheckLock ==
    \E r \in HttpReqs :
        /\ hpc[r] = "check_lock"
        /\ IF matLock
           THEN Answer(r, "materializing")
           ELSE hpc' = [hpc EXCEPT ![r] = "touch"] /\ UNCHANGED resp
        /\ UNCHANGED matLock
        /\ UNCHANGED notHttp

\* lock_path.touch(exist_ok=False), then subprocess.run of the builder
\* (app.py 241-264).
TouchLock ==
    \E r \in HttpReqs :
        /\ hpc[r] = "touch"
        /\ IF matLock
           THEN Answer(r, "materializing") /\ UNCHANGED matLock
           ELSE /\ matLock' = TRUE
                /\ hpc' = [hpc EXCEPT ![r] = "building"]
                /\ UNCHANGED resp
        /\ UNCHANGED notHttp

\* The builder returns; dash_summary_new() is called on exit status 0; the
\* finally clause unlinks the lock; a "no such table" error of the query
\* reaches the outer handler, which runs the builder again (app.py 266-313).
BuilderReturns ==
    \E r \in HttpReqs, out \in {"ok", "no_such_table", "error", "rc_nonzero"} :
        /\ hpc[r] = "building"
        /\ matLock' = FALSE
        /\ IF out = "no_such_table"
           THEN hpc' = [hpc EXCEPT ![r] = "fallback"] /\ UNCHANGED resp
           ELSE Answer(r, CASE out = "ok" -> "ok"
                            [] out = "error" -> "error"
                            [] OTHER -> "materializing_error")
        /\ UNCHANGED notHttp

\* The builder started by the outer handler returns (app.py 307-330).
FallbackReturns ==
    \E r \in HttpReqs, ok \in BOOLEAN :
        /\ hpc[r] = "fallback"
        /\ Answer(r, IF ok THEN "ok" ELSE "materializing")
        /\ UNCHANGED matLock
        /\ UNCHANGED notHttp

\* POST /api/create-materialized-tables: the task is queued and the request
\* answered (app.py 99-129).
PostCreate ==
    \E r \in HttpReqs :
        /\ hpc[r] = "idle"
        /\ hpc' = [hpc EXCEPT ![r] = "bg_queued"]
        /\ resp' = [resp EXCEPT ![r] = "started"]
        /\ UNCHANGED matLock
        /\ UNCHANGED notHttp

\* The background task _run_builder calls subprocess.run of the builder.
BgStart ==
    \E r \in HttpReqs :
        /\ hpc[r] = "bg_queued"
        /\ hpc' = [hpc EXCEPT ![r] = "bg_building"]
        /\ UNCHANGED <<resp, matLock>>
        /\ UNCHANGED notHttp

\* The builder of the background task returns.
BgReturns ==
    \E r \in HttpReqs :
        /\ hpc[r] = "bg_building"
        /\ hpc' = [hpc EXCEPT ![r] = "done"]
        /\ UNCHANGED <<resp, matLock>>
        /\ UNCHANGED notHttp

\* The request is over; the next one arrives.
NextRequest ==
    \E r \in HttpReqs :
        /\ hpc[r] = "done"
        /\ hpc' = [hpc EXCEPT ![r] = "idle"]
        /\ resp' = [resp EXCEPT ![r] = "none"]
        /\ UNCHANGED matLock
        /\ UNCHANGED notHttp

HttpNext ==
    \/ GetDashboard
    \/ CheckLock
    \/ TouchLock
    \/ BuilderReturns
    \/ FallbackReturns
    \/ PostCreate
    \/ BgStart
    \/ BgReturns
    \/ NextRequest

-----------------------------------------------------------------------------
(***************************************************************************)
(* 1_build_heavy_analysis.py: tokenize, split_streets and parse_hand.      *)
(* A Python string is a sequence of one-character strings.                 *)
(***************************************************************************)

SEAT_ORDER == <<"UTG", "UTG1", "UTG2", "LJ", "HJ", "CO", "BTN", "SB", "BB">>

DigitChars == <<"0", "1", "2", "3", "4", "5", "6", "7", "8", "9">>

\* str.isdigit() of one character.
isdigit(c) == \E i \in DOMAIN DigitChars : DigitChars[i] = c

DigitVal(c) == (CHOOSE i \in DOMAIN DigitChars : DigitChars[i] = c) - 1

\* The inner `while j < len(s) and s[j].isdigit()` of tokenize: the index
\* after the run of digits that starts at j.
RECURSIVE TakeDigits(_, _)
TakeDigits(s, j) ==
    IF j <= Len(s) /\ isdigit(s[j]) THEN TakeDigits(s, j + 1) ELSE j

\* The loop of tokenize from index i on; ok = FALSE is the ValueError.
RECURSIVE tokenize_from(_, _, _)
tokenize_from(s, i, out) ==
    IF i > Len(s) THEN [ok |-> TRUE, toks |-> out]
    ELSE IF s[i] \in {"x", "f", "c"}
         THEN tokenize_from(s, i + 1, Append(out, <<s[i]>>))
    ELSE IF s[i] = "r"
         THEN LET j == TakeDigits(s, i + 1)
              IN  tokenize_from(s, j, Append(out, SubSeq(s, i, j - 1)))
    ELSE [ok |-> FALSE, toks |-> <<>>]

tokenize(s) == tokenize_from(s, 1, <<>>)

\* The index of the first "]" at or after j, 0 if there is none.
RECURSIVE FindClose(_, _)
FindClose(s, j) ==
    IF j > Len(s) THEN 0
    ELSE IF s[j] = "]" THEN j
    ELSE FindClose(s, j + 1)

\* The leftmost match of the pattern \[[^\]]+\] at or after i: its first and
\* last index, <<0, 0>> if there is none.
RECURSIVE FindBracket(_, _)
FindBracket(s, i) ==
    IF i > Len(s) THEN <<0, 0>>
    ELSE IF /\ s[i] = "["
            /\ i + 1 <= Len(s)
            /\ s[i + 1] # "]"
            /\ FindClose(s, i + 2) # 0
         THEN <<i, FindClose(s, i + 2)>>
    ELSE FindBracket(s, i + 1)

\* re.split(r"(\[[^\]]+\])", s) from index i on: text, match, text, ...
RECURSIVE re_split(_, _)
re_split(s, i) ==
    LET m == FindBracket(s, i)
    IN  IF m[1] = 0 THEN <<SubSeq(s, i, Len(s))>>
        ELSE <<SubSeq(s, i, m[1] - 1), SubSeq(s, m[1], m[2])>> \o re_split(s, m[2] + 1)

RECURSIVE lstrip(_)
lstrip(t) == IF t # <<>> /\ Head(t) \in {"[", "]"} THEN lstrip(Tail(t)) ELSE t

RECURSIVE rstrip(_)
rstrip(t) ==
    IF t # <<>> /\ t[Len(t)] \in {"[", "]"} THEN rstrip(SubSeq(t, 1, Len(t) - 1)) ELSE t

\* part.strip("[]")
strip(t) == rstrip(lstrip(t))

\* {"preflop":"flop","flop":"turn","turn":"river"}.get(name, "river")
NextStreetName(name) ==
    IF name = "preflop" THEN "flop"
    ELSE IF name = "flop" THEN "turn"
    ELSE "river"

\* The loop of split_streets over the parts; the last append is line 93.
RECURSIVE split_loop(_, _, _, _, _)
split_loop(parts, acc, cur, cards, name) ==
    IF parts = <<>>
    THEN Append(acc, [name |-> name, text |-> cur, cards |-> cards])
    ELSE LET part == Head(parts)
         IN  IF part # <<>> /\ Head(part) = "["
             THEN split_loop(Tail(parts),
                             Append(acc, [name |-> name, text |-> cur, cards |-> cards]),
                             <<>>, strip(part), NextStreetName(name))
             ELSE split_loop(Tail(parts), acc, cur \o part, cards, name)

\* A mutation of KeepStreet: a street without board cards is dropped.
KeepStreetWithCards(p) == p.cards # <<>>

\* The filter of split_streets' return: `if p[1] or p[2]`.
KeepStreet(p) == p.toks # <<>> \/ p.cards # <<>>

\* split_streets: ok = FALSE if tokenize raised for one of the parts.
split_streets(s) ==
    LET raw == split_loop(re_split(s, 1), <<>>, <<>>, <<>>, "preflop")
        parts == [i \in DOMAIN raw |->
                    [name |-> raw[i].name, toks |-> tokenize(raw[i].text).toks,
                     cards |-> raw[i].cards]]
    IN  IF \E i \in DOMAIN raw : ~tokenize(raw[i].text).ok
        THEN [ok |-> FALSE, streets |-> <<>>]
        ELSE [ok |-> TRUE, streets |-> SelectSeq(parts, KeepStreet)]

IndexOf(q, x) == CHOOSE i \in DOMAIN q : q[i] = x

\* deque.rotate(-k) for the element at index k (from 1): it comes first.
RotateTo(q, k) == SubSeq(q, k, Len(q)) \o SubSeq(q, 1, k - 1)

rotate_postflop(active) ==
    IF "SB" \in Range(active) THEN RotateTo(active, IndexOf(active, "SB"))
    ELSE IF "BB" \in Range(active) THEN RotateTo(active, IndexOf(active, "BB"))
    ELSE active

RECURSIVE int_of(_, _)
int_of(ds, acc) ==
    IF ds = <<>> THEN acc ELSE int_of(Tail(ds), acc * 10 + DigitVal(Head(ds)))

\* safe_parse_int of the digits of a raise token: int("") raises ValueError,
\* which gives the default.
safe_parse_int(value, default) ==
    IF value = <<>> THEN default ELSE int_of(value, 0)

\* A mutation of ActionRow: pot_after holds the pot before the action.
ActionRowStalePot(h, idx_, street, st_idx, pos, act, amt_to, stack_b, stack_a, put, pot_b, pot, players_left, state, board_seen) ==
    [hand_id |-> h.stub, action_order |-> idx_, street |-> street,
     street_index |-> st_idx, position |-> pos, action |-> act,
     amount_to |-> amt_to, stack_before |-> stack_b, stack_after |-> stack_a,
     invested_this_action |-> put, pot_before |-> pot_b, pot_after |-> pot_b,
     players_left |-> players_left, state_prefix |-> state,
     board_cards |-> board_seen]

\* The tuple parse_hand appends to rows_a (lines 229-241).
ActionRow(h, idx_, street, st_idx, pos, act, amt_to, stack_b, stack_a, put, pot_b, pot, players_left, state, board_seen) ==
    [hand_id |-> h.stub, action_order |-> idx_, street |-> street,
     street_index |-> st_idx, position |-> pos, action |-> act,
     amount_to |-> amt_to, stack_before |-> stack_b, stack_after |-> stack_a,
     invested_this_action |-> put, pot_before |-> pot_b, pot_after |-> pot,
     players_left |-> players_left, state_prefix |-> state,
     board_cards |-> board_seen]

\* list.remove(pos)
Remove(q, x) == SelectSeq(q, LAMBDA y : y # x)

\* One turn of `for tk in toks` (lines 196-242). order[0] of an empty deque
\* raises IndexError: err.
TokenStep(h, st, street, st_idx, tk, board_to_add) ==
    IF st.err \/ st.order = <<>> THEN [st EXCEPT !.err = TRUE]
    ELSE
    LET state == st.state \o board_to_add
        pos == Head(st.order)
        act == tk[1]
        amt_to == IF act = "r" THEN safe_parse_int(Tail(tk), st.cur_max) ELSE 0
        stack_b == h.stack[pos] - st.invested[pos]
        pot_b == st.pot
        put == IF act = "r" THEN amt_to - st.invested[pos]
               ELSE IF act = "c" THEN st.cur_max - st.invested[pos]
               ELSE 0
        pot == pot_b + put
        stack_a == stack_b - put
        active == IF act = "f" THEN Remove(st.active, pos) ELSE st.active
        order == IF act = "f" THEN Tail(st.order) ELSE Tail(st.order) \o <<pos>>
        players_left == Len(active)
    IN  [st EXCEPT
            !.state = state \o tk,
            !.cur_max = IF act = "r" THEN amt_to ELSE st.cur_max,
            !.invested = [st.invested EXCEPT ![pos] = @ + put],
            !.pot = pot,
            !.active = active,
            !.order = order,
            !.idx = st.idx + 1,
            !.rows_a = Append(st.rows_a,
                ActionRow(h, st.idx, street, st_idx, pos, act, amt_to, stack_b,
                          stack_a, put, pot_b, pot, players_left, state,
                          st.board_seen))]

RECURSIVE TokenLoop(_, _, _, _, _, _)
TokenLoop(h, st, street, st_idx, toks, board_to_add) ==
    IF toks = <<>> THEN st
    ELSE TokenLoop(h, TokenStep(h, st, street, st_idx, Head(toks), board_to_add),
                   street, st_idx, Tail(toks), <<>>)

\* One turn of `for st_idx, (street, toks, board) in enumerate(...)`
\* (lines 187-245).
StreetStep(h, st, st_idx, s) ==
    LET st1 == [st EXCEPT
                  !.board_seen = IF s.cards # <<>> THEN @ \o s.cards ELSE @,
                  !.rows_s = IF s.cards # <<>>
                             THEN Append(@, [hand_id |-> h.stub, street |-> s.name,
                                             board |-> s.cards])
                             ELSE @,
                  !.order = IF s.name # "preflop" THEN rotate_postflop(st.active)
                            ELSE @]
        board_to_add == IF s.cards # <<>> THEN <<"[">> \o s.cards \o <<"]">> ELSE <<>>
        st2 == TokenLoop(h, st1, s.name, st_idx, s.toks, board_to_add)
    IN  [st2 EXCEPT
            !.cur_max = 0,
            !.invested = [p \in DOMAIN st2.invested |->
                            IF p \in Range(st2.active) THEN 0 ELSE st2.invested[p]]]

RECURSIVE StreetLoop(_, _, _, _)
StreetLoop(h, st, st_idx, streets) ==
    IF streets = <<>> THEN st
    ELSE StreetLoop(h, StreetStep(h, st, st_idx, Head(streets)), st_idx + 1,
                    Tail(streets))

\* seats = [p for p in SEAT_ORDER if p in pos2info]
Seats(h) == SelectSeq(SEAT_ORDER, LAMBDA p : p \in DOMAIN h.stack)

\* parse_hand: ok = FALSE if an exception leaves it.
parse_hand(h) ==
    LET ss == split_streets(h.situation_string)
        seats == Seats(h)
        st0 == [active |-> seats, order |-> seats, state |-> <<>>, idx |-> 0,
                board_seen |-> <<>>,
                invested |-> [p \in DOMAIN h.stack |->
                                (IF p = "SB" THEN h.sb ELSE 0)
                                + (IF p = "BB" THEN h.bb ELSE 0) + h.ante],
                pot |-> h.sb + h.bb + h.ante * Len(seats),
                cur_max |-> h.bb,
                rows_a |-> <<>>, rows_s |-> <<>>, err |-> FALSE]
        st == StreetLoop(h, st0, 0, ss.streets)
    IN  IF ~ss.ok \/ st.err
        THEN [ok |-> FALSE, rows_a |-> <<>>, rows_s |-> <<>>, rows_p |-> {},
              hand_info |-> h.stub]
        ELSE [ok |-> TRUE, rows_a |-> st.rows_a, rows_s |-> st.rows_s,
              rows_p |-> {[hand_id |-> h.stub, position |-> p, stack0 |-> h.stack[p]]
                            : p \in DOMAIN h.stack},
              hand_info |-> h.stub]

\* ---- parse_hand applied to one hand ----

\* The pieces the situation strings of the model are made of: the action
\* characters, raises with and without an amount, two boards and a character
\* that is none of x, f, c, r.
Pieces ==
    { <<"x">>, <<"f">>, <<"c">>, <<"r">>, <<"r", "5">>,
      <<"[", "A", "]">>, <<"[", "K", "]">>, <<"z">> }

RECURSIVE Flatten(_)
Flatten(ps) == IF ps = <<>> THEN <<>> ELSE Head(ps) \o Flatten(Tail(ps))

SituationStrings ==
    {Flatten(ps) : ps \in UNION {[1..n -> Pieces] : n \in 0..MaxPieces}}

\* Heads-up and three-handed tables, one of them with a stack that a raise
\* to 5 uses up.
StackSets ==
    { [p \in {"SB", "BB"} |-> 20],
      [p \in {"SB", "BB"} |-> IF p = "SB" THEN 5 ELSE 20],
      [p \in {"BTN", "SB", "BB"} |-> IF p = "BTN" THEN 9 ELSE 20] }

ParseHands ==
    {[stub |-> "h", stack |-> sk, bb |-> 2, sb |-> 1, ante |-> 0,
      situation_string |-> s] : sk \in StackSets, s \in SituationStrings}

NotParsed == [ok |-> FALSE, rows_a |-> <<>>, rows_s |-> <<>>, rows_p |-> {},
              hand_info |-> "none"]

ParseIdle ==
    /\ ph = [stub |-> "none"]
    /\ pout = NotParsed

ParseInit ==
    /\ ph \in ParseHands
    /\ pout = NotParsed

\* streets, actions, players, info, score_rows = parse_hand(hand, ...)
ParseHand ==
    /\ pout = NotParsed
    /\ pout' = parse_hand(ph)
    /\ UNCHANGED ph
    /\ UNCHANGED notParse

ParseNext == ParseHand

-----------------------------------------------------------------------------
(***************************************************************************)
(* 1_build_heavy_analysis.py main: the import loop, statement by statement *)
(***************************************************************************)

\* The hands of the primary store the import loop may meet: heads-up hands
\* with and without partial scores, a three-handed hand, and a hand whose
\* situation_string holds a character the tokenizer rejects.
ImportHandSpace ==
    { [stub |-> "g1", stack |-> [p \in {"SB", "BB"} |-> 20], bb |-> 2, sb |-> 1,
       ante |-> 0, partial |-> TRUE,
       situation_string |-> <<"c", "x", "[", "A", "]", "x", "x">>],
      [stub |-> "g2", stack |-> [p \in {"SB", "BB"} |-> 20], bb |-> 2, sb |-> 1,
       ante |-> 0, partial |-> FALSE,
       situation_string |-> <<"r", "5", "f">>],
      [stub |-> "g3", stack |-> [p \in {"BTN", "SB", "BB"} |-> 20], bb |-> 2,
       sb |-> 1, ante |-> 0, partial |-> FALSE,
       situation_string |-> <<"f", "c", "x", "[", "K", "]", "x", "r", "c">>],
      [stub |-> "b1", stack |-> [p \in {"SB", "BB"} |-> 20], bb |-> 2, sb |-> 1,
       ante |-> 0, partial |-> FALSE,
       situation_string |-> <<"c", "z">>] }

\* The tables of the analytic store Stage 1 writes; scored holds the keys of
\* the actions rows whose action_score is not NULL.
EmptyStore ==
    [hand_info |-> {}, streets |-> {}, players |-> {}, actions |-> {},
     postflop_scores |-> {}, scored |-> {}]

\* The primary key of a row.
Key(r, cols) == [c \in cols |-> r[c]]

\* executemany of INSERT OR IGNORE into a table with primary key cols.
RECURSIVE InsertMany(_, _, _)
InsertMany(table, rs, cols) ==
    IF rs = <<>> THEN table
    ELSE InsertMany(IF \E x \in table : Key(x, cols) = Key(Head(rs), cols)
                    THEN table ELSE table \cup {Head(rs)},
                    Tail(rs), cols)

\* A set as a sequence, in some order.
RECURSIVE SeqOf(_)
SeqOf(S) ==
    IF S = {} THEN <<>>
    ELSE LET x == CHOOSE y \in S : TRUE IN <<x>> \o SeqOf(S \ {x})

\* score_rows of parse_hand: one node per postflop decision of a hand with
\* partial scores, under the state that precedes the decision.
score_rows(h) ==
    IF h.partial
    THEN {[hand_id |-> h.stub, node_string |-> r.state_prefix] :
            r \in {x \in Range(parse_hand(h).rows_a) : x.street # "preflop"}}
    ELSE {}

\* The rows fill_missing_scores updates (lines 370-401): postflop rows of the
\* hand without a score whose state_prefix is a node of the hand.
fill_missing_scores(w, hand_id) ==
    {[hand_id |-> r.hand_id, action_order |-> r.action_order] :
        r \in {x \in w.actions :
                 /\ x.hand_id = hand_id
                 /\ x.street # "preflop"
                 /\ [hand_id |-> x.hand_id, action_order |-> x.action_order]
                        \notin w.scored
                 /\ \E n \in w.postflop_scores :
                        n.hand_id = hand_id /\ n.node_string = x.state_prefix}}

\* A mutation of AfterStatement: the connection is in autocommit mode.
AfterStatementAutocommit(c, w) == w

\* The committed store after a DML statement of the connection `dst`
\* (sqlite3.connect with the default isolation_level): the statement runs in
\* the implicit transaction and nothing is committed.
AfterStatement(c, w) == c

ImportRunning ==
    {"loop", "info", "streets", "players", "actions", "scores", "fill", "count", "final"}

ImportIdle ==
    /\ isrc = <<>>
    /\ ipc = "off"
    /\ icur = 0
    /\ iwork = EmptyStore
    /\ icommitted = EmptyStore
    /\ idone = {}
    /\ inew = 0
    /\ ilast = "none"
    /\ iruns = 0

ImportInit ==
    /\ isrc \in {q \in UNION {[1..n -> ImportHandSpace] : n \in 1..MaxSrc} :
                    \A i, j \in DOMAIN q : q[i].stub = q[j].stub => i = j}
    /\ ipc = "ready"
    /\ icur = 0
    /\ iwork = EmptyStore
    /\ icommitted = EmptyStore
    /\ idone = {}
    /\ inew = 0
    /\ ilast = "none"
    /\ iruns = 0

\* The stage is started: connect, ensure(dst), done = done_ids(dst), and the
\* SELECT over the hands table (lines 423-477).
ImportStart ==
    /\ ipc \in {"ready", "done", "failed", "killed"}
    /\ iruns < MaxImportRuns
    /\ iruns' = iruns + 1
    /\ ipc' = "loop"
    /\ icur' = 0
    /\ inew' = 0
    /\ iwork' = icommitted
    /\ idone' = icommitted.hand_info
    /\ ilast' = "none"
    /\ UNCHANGED <<isrc, icommitted>>
    /\ UNCHANGED notImport

\* An exception leaves main: the finally clause closes dst, which rolls the
\* open transaction back, and the script exits non-zero.
ImportRaise ==
    /\ iwork' = icommitted
    /\ ipc' = "failed"
    /\ ilast' = ipc

\* One turn of `for row in cs.execute(query)` up to parse_hand (477-490).
FetchRow ==
    /\ ipc = "loop"
    /\ IF icur = Len(isrc)
       THEN /\ ipc' = "final"
            /\ UNCHANGED <<icur, iwork, ilast>>
       ELSE /\ icur' = icur + 1
            /\ IF isrc[icur + 1].stub \in idone
               THEN UNCHANGED <<ipc, iwork, ilast>>
               ELSE IF ~parse_hand(isrc[icur + 1]).ok
               THEN /\ iwork' = icommitted
                    /\ ipc' = "failed"
                    /\ ilast' = "parse"
               ELSE /\ ipc' = "info"
                    /\ UNCHANGED <<iwork, ilast>>
    /\ UNCHANGED <<isrc, icommitted, idone, inew, iruns>>
    /\ UNCHANGED notImport

\* One of the INSERT OR IGNORE statements of the loop body has run.
Statement(at, next, w) ==
    /\ ipc = at
    /\ ipc' = next
    /\ iwork' = w
    /\ icommitted' = AfterStatement(icommitted, w)
    /\ UNCHANGED <<isrc, icur, idone, inew, ilast, iruns>>
    /\ UNCHANGED notImport

\* cd.execute("INSERT OR IGNORE INTO hand_info ...", info) (line 492)
InsertInfo ==
    /\ icur \in DOMAIN isrc
    /\ Statement("info", "streets",
         [iwork EXCEPT !.hand_info = @ \cup {parse_hand(isrc[icur]).hand_info}])

\* cd.executemany("INSERT OR IGNORE INTO streets ...", streets) (line 493)
InsertStreets ==
    /\ icur \in DOMAIN isrc
    /\ Statement("streets", "players",
         [iwork EXCEPT !.streets =
            InsertMany(@, parse_hand(isrc[icur]).rows_s, {"hand_id", "street"})])

\* cd.executemany("INSERT OR IGNORE INTO players ...", players) (line 494)
InsertPlayers ==
    /\ icur \in DOMAIN isrc
    /\ Statement("players", "actions",
         [iwork EXCEPT !.players =
            InsertMany(@, SeqOf(parse_hand(isrc[icur]).rows_p), {"hand_id", "position"})])

\* cd.executemany("INSERT OR IGNORE INTO actions ...", actions) (495-502)
InsertActions ==
    /\ icur \in DOMAIN isrc
    /\ Statement("actions", "scores",
         [iwork EXCEPT !.actions =
            InsertMany(@, parse_hand(isrc[icur]).rows_a, {"hand_id", "action_order"})])

\* cd.executemany("INSERT OR IGNORE INTO postflop_scores ...") (503-504)
InsertScores ==
    /\ icur \in DOMAIN isrc
    /\ Statement("scores", "fill",
         [iwork EXCEPT !.postflop_scores =
            InsertMany(@, SeqOf(score_rows(isrc[icur])), {"hand_id", "node_string"})])

\* fill_missing_scores(dst, hid): the UPDATE and con.commit() run only if a
\* row matched (lines 403-407).
FillMissing ==
    /\ ipc = "fill"
    /\ LET upd == fill_missing_scores(iwork, isrc[icur].stub)
           w == [iwork EXCEPT !.scored = @ \cup upd]
       IN  /\ iwork' = w
           /\ icommitted' = IF upd # {} THEN w ELSE icommitted
    /\ ipc' = "count"
    /\ UNCHANGED <<isrc, icur, idone, inew, ilast, iruns>>
    /\ UNCHANGED notImport

\* new += 1; if new % 200 == 0: dst.commit() (lines 507-509)
CountCommit ==
    /\ ipc = "count"
    /\ inew' = inew + 1
    /\ icommitted' = IF (inew + 1) % CommitEvery = 0 THEN iwork ELSE icommitted
    /\ ipc' = "loop"
    /\ UNCHANGED <<isrc, icur, iwork, idone, ilast, iruns>>
    /\ UNCHANGED notImport

\* dst.commit() after the loop (line 511); the script exits with status 0.
FinalCommit ==
    /\ ipc = "final"
    /\ icommitted' = iwork
    /\ ipc' = "done"
    /\ UNCHANGED <<isrc, icur, iwork, idone, inew, ilast, iruns>>
    /\ UNCHANGED notImport

\* A statement raises sqlite3.Error (database is locked, disk full).
ImportError ==
    /\ ipc \in ImportRunning \ {"loop"}
    /\ ImportRaise
    /\ UNCHANGED <<isrc, icur, icommitted, idone, inew, iruns>>
    /\ UNCHANGED notImport

\* The process is killed or crashes: the open transaction is never committed.
ImportKill ==
    /\ ipc \in ImportRunning
    /\ iwork' = icommitted
    /\ ipc' = "killed"
    /\ ilast' = ipc
    /\ UNCHANGED <<isrc, icur, icommitted, idone, inew, iruns>>
    /\ UNCHANGED notImport

ImportNext ==
    \/ ImportStart
    \/ FetchRow
    \/ InsertInfo
    \/ InsertStreets
    \/ InsertPlayers
    \/ InsertActions
    \/ InsertScores
    \/ FillMissing
    \/ CountCommit
    \/ FinalCommit
    \/ ImportError
    \/ ImportKill

-----------------------------------------------------------------------------
(***************************************************************************)
(* Preflop scoring of one six-handed hand: 2_preflop_scores.py main and    *)
(* 7_input_scores.py map_preflop_scores                                    *)
(***************************************************************************)

\* SQL NULL in a column of numbers.
NoFreq == 0 - 1

PreflopSeats == {"UTG", "HJ", "CO", "BTN", "SB", "BB"}

\* Six-handed hands: a raise that is called, a raise that is re-raised and
\* raised again by the opener, and a blind battle. Every player holds the
\* combo "AK".
PreflopHandBase ==
    { [stub |-> "p1", stack |-> [p \in PreflopSeats |-> 100], bb |-> 2, sb |-> 1,
       ante |-> 0, combo |-> "AK",
       situation_string |-> <<"r", "5", "f", "f", "f", "f", "c">>],
      [stub |-> "p2", stack |-> [p \in PreflopSeats |-> 100], bb |-> 2, sb |-> 1,
       ante |-> 0, combo |-> "AK",
       situation_string |-> <<"r", "5", "f", "f", "f", "f", "r", "9", "r", "2", "0">>],
      [stub |-> "p3", stack |-> [p \in PreflopSeats |-> 100], bb |-> 2, sb |-> 1,
       ante |-> 0, combo |-> "AK",
       situation_string |-> <<"f", "f", "f", "f", "r", "5", "c">>] }

\* The (node, action) pairs ranges_flat may hold a frequency for: the
\* opener's first decision, the opener's decision after a raise and a
\* re-raise, and the big blind's decision after a raise.
RangeSlots ==
    { [position |-> "UTG", action_sequence |-> <<>>, combo |-> "AK",
       action |-> "r", size |-> 5],
      [position |-> "UTG", action_sequence |-> <<>>, combo |-> "AK",
       action |-> "f", size |-> 0],
      [position |-> "UTG", action_sequence |-> <<"R", "F", "F", "F", "F", "R">>,
       combo |-> "AK", action |-> "r", size |-> 20],
      [position |-> "UTG", action_sequence |-> <<"R", "F", "F", "F", "F", "R">>,
       combo |-> "AK", action |-> "f", size |-> 0],
      [position |-> "BB", action_sequence |-> <<"R", "F">>, combo |-> "AK",
       action |-> "r", size |-> 9],
      [position |-> "BB", action_sequence |-> <<"R", "F">>, combo |-> "AK",
       action |-> "c", size |-> 0] }

Frequencies == {30, 70}

\* The tables ranges_flat of the model: every slot is absent or has one of
\* the frequencies.
RangeTables ==
    { {[position |-> s.position, action_sequence |-> s.action_sequence,
        combo |-> s.combo, action |-> s.action, size |-> s.size,
        frequency |-> f[s]] : s \in {x \in RangeSlots : f[x] # NoFreq}}
        : f \in [RangeSlots -> Frequencies \cup {NoFreq}] }

\* 2_preflop_scores.py tokenize of the part before the first "[": the tokens,
\* or None (ok = FALSE) when the pattern r\d+|[fcx] does not cover the text.
preflop_tokenize(s) ==
    LET open == {i \in DOMAIN s : s[i] = "["}
        head == IF open = {} THEN s
                ELSE SubSeq(s, 1, (CHOOSE i \in open : \A j \in open : i <= j) - 1)
        t == tokenize(head)
    IN  IF t.ok /\ \A i \in DOMAIN t.toks : t.toks[i][1] = "r" => Len(t.toks[i]) > 1
        THEN t
        ELSE [ok |-> FALSE, toks |-> <<>>]

\* hh["breadcrumb"]: one "position:stack:action" per preflop action, as the
\* upstream API derives it from the same hand.
breadcrumb(h) ==
    LET rs == SelectSeq(parse_hand(h).rows_a, LAMBDA r : r.street = "preflop")
        tk == preflop_tokenize(h.situation_string).toks
    IN  [i \in DOMAIN rs |-> [pos |-> rs[i].position,
                               act |-> IF i \in DOMAIN tk THEN tk[i] ELSE <<"x">>]]

\* The hand objects of the primary store, breadcrumb included.
PreflopHands ==
    {[stub |-> b.stub, stack |-> b.stack, bb |-> b.bb, sb |-> b.sb, ante |-> b.ante,
      combo |-> b.combo, situation_string |-> b.situation_string,
      breadcrumb |-> breadcrumb(b)] : b \in PreflopHandBase}

RECURSIVE compress_folds(_)
compress_folds(tokens) ==
    IF /\ Len(tokens) >= 2
       /\ tokens[Len(tokens)] = <<"f">>
       /\ tokens[Len(tokens) - 1] = <<"f">>
    THEN compress_folds(SubSeq(tokens, 1, Len(tokens) - 1))
    ELSE tokens

Upper(c) ==
    IF c = "r" THEN "R" ELSE IF c = "f" THEN "F" ELSE IF c = "c" THEN "C" ELSE "X"

\* to_seq, without the "-" between the letters.
to_seq(tokens) == [i \in DOMAIN tokens |-> Upper(tokens[i][1])]

\* action_sequence LIKE like_pattern(sq): "%" for the empty sq, else
\* sq + "%".
Like(action_sequence, sq) ==
    /\ Len(sq) <= Len(action_sequence)
    /\ SubSeq(action_sequence, 1, Len(sq)) = sq

pos_variants(pos) == IF pos \in {"UTG", "LJ"} THEN {"UTG", "LJ"} ELSE {pos}

\* The rows both queries of fetch_freq_and_max range over.
Matching(rng, combo, pos, sq) ==
    {row \in rng : /\ row.position \in pos_variants(pos)
                   /\ Like(row.action_sequence, sq)
                   /\ row.combo = combo}

\* The rows fetch_freq_and_max's fetchone may return: for a raise the row of
\* the smallest raise, else a row of the action; none: (None, None).
FetchRows(rng, combo, pos, sq, act_token) ==
    LET m == Matching(rng, combo, pos, sq)
    IN  IF act_token[1] = "r"
        THEN {row \in m : /\ row.action = "r"
                          /\ \A o \in m : o.action = "r" => row.size <= o.size}
        ELSE {row \in m : <<row.action>> = act_token}

MaxFrequency(rs) == CHOOSE f \in {r.frequency : r \in rs} : \A r \in rs : r.frequency <= f

\* fetch_freq_and_max, given the row fetchone returned.
fetch_freq_and_max(rng, combo, pos, sq, row) ==
    [freq |-> row.frequency, maxf |-> MaxFrequency(Matching(rng, combo, pos, sq))]

\* The row Stage 2 appends to its batch for actor idx_ (lines 166-181).
PreflopScoreRow(h, idx_, fm) ==
    LET actors == h.breadcrumb
        tokens == preflop_tokenize(h.situation_string).toks
    IN  [hand_id |-> h.stub, position |-> actors[idx_].pos,
         seq |-> to_seq(compress_folds(SubSeq(tokens, 1, idx_ - 1))),
         freq |-> fm.freq,
         best |-> IF fm.freq # NoFreq /\ fm.maxf # NoFreq /\ fm.freq = fm.maxf THEN "y"
                  ELSE IF fm.maxf # NoFreq THEN "n" ELSE "null"]

PreflopIdle ==
    /\ fhand = [stub |-> "none"]
    /\ ranges_flat = {}
    /\ fscores = {}
    /\ facts = <<>>
    /\ fpc = [at |-> "off", i |-> 0]

PreflopInit ==
    /\ fhand \in PreflopHands
    /\ ranges_flat \in RangeTables
    /\ fscores = {}
    /\ facts = <<>>
    /\ fpc = [at |-> "stage1", i |-> 0]

\* Stage 1 has imported the hand: its preflop rows of actions.
PreflopStage1 ==
    /\ fpc.at = "stage1"
    /\ facts' = LET rs == SelectSeq(parse_hand(fhand).rows_a,
                                    LAMBDA r : r.street = "preflop")
                 IN  [i \in DOMAIN rs |->
                        [hand_id |-> rs[i].hand_id,
                         action_order |-> rs[i].action_order,
                         street |-> rs[i].street, position |-> rs[i].position,
                         action |-> rs[i].action,
                         preflop_score |-> NoFreq, solver_best |-> "null"]]
    /\ fpc' = [at |-> "stage2", i |-> 1]
    /\ UNCHANGED <<fhand, ranges_flat, fscores>>
    /\ UNCHANGED notPreflop

\* Stage 2, one turn of `for idx, (pos, _stack, act_raw) in enumerate(actors)`
\* together with the INSERT OR IGNORE of the row (primary key hand_id,
\* position).
PreflopStage2 ==
    /\ fpc.at = "stage2"
    /\ LET actors == fhand.breadcrumb
           tokens == preflop_tokenize(fhand.situation_string)
       IN  IF \/ ~tokens.ok
              \/ Len(actors) # Len(tokens.toks)
              \/ Cardinality(DOMAIN fhand.stack) # 6
              \/ fpc.i > Len(actors)
           THEN /\ fpc' = [at |-> "stage7", i |-> 0]
                /\ UNCHANGED fscores
           ELSE LET seq_ == to_seq(compress_folds(SubSeq(tokens.toks, 1, fpc.i - 1)))
                    pos == actors[fpc.i].pos
                    rows_ == FetchRows(ranges_flat, fhand.combo, pos, seq_,
                                       actors[fpc.i].act)
                IN  /\ \E fm \in IF rows_ = {}
                                 THEN {[freq |-> NoFreq, maxf |-> NoFreq]}
                                 ELSE {fetch_freq_and_max(ranges_flat, fhand.combo,
                                                          pos, seq_, row) : row \in rows_} :
                        fscores' = InsertMany(fscores,
                                              <<PreflopScoreRow(fhand, fpc.i, fm)>>,
                                              {"hand_id", "position"})
                    /\ fpc' = [at |-> "stage2", i |-> fpc.i + 1]
    /\ UNCHANGED <<fhand, ranges_flat, facts>>
    /\ UNCHANGED notPreflop

\* 7_input_scores.py map_preflop_scores over the rows of the hand.
map_preflop(acts, scores) ==
    [i \in DOMAIN acts |->
        LET hit == {ps \in scores : /\ ps.freq # NoFreq
                                    /\ ps.hand_id = acts[i].hand_id
                                    /\ ps.position = acts[i].position}
        IN  IF /\ acts[i].street = "preflop"
               /\ acts[i].preflop_score = NoFreq
               /\ acts[i].action \in {"r", "c", "f"}
               /\ hit # {}
            THEN [acts[i] EXCEPT
                    !.preflop_score = (CHOOSE ps \in hit : TRUE).freq,
                    !.solver_best = (CHOOSE ps \in hit : TRUE).best]
            ELSE acts[i]]

PreflopStage7 ==
    /\ fpc.at = "stage7"
    /\ facts' = map_preflop(facts, fscores)
    /\ fpc' = [at |-> "done", i |-> 0]
    /\ UNCHANGED <<fhand, ranges_flat, fscores>>
    /\ UNCHANGED notPreflop

PreflopNext ==
    \/ PreflopStage1
    \/ PreflopStage2
    \/ PreflopStage7

-----------------------------------------------------------------------------
(***************************************************************************)
(* main.py run_loop.signal_handler and cleanup_database_locks, next to the *)
(* stage processes of the lock model                                       *)
(***************************************************************************)

\* The stage process that subprocess.run of the driver waits for.
DriverStage == "p1"

ShutdownIdle ==
    /\ IS_RENDER = FALSE
    /\ dpc = "off"
    /\ dexit = 0 - 1
    /\ checkpoint = "none"
    /\ walFiles = FALSE

ShutdownInit ==
    /\ IS_RENDER \in BOOLEAN
    /\ dpc = "running"
    /\ dexit = 0 - 1
    /\ checkpoint = "none"
    /\ walFiles \in BOOLEAN

\* cleanup_database_locks (lines 69-136): PRAGMA wal_checkpoint(TRUNCATE) on
\* every .db file found, then unlink of the files whose name ends in .db-wal
\* or .db-shm. No other file is removed.
cleanup_database_locks ==
    /\ checkpoint' \in {"ok", "busy", "error"}
    /\ walFiles' = FALSE

\* sys.exit(0) in the handler raises SystemExit in the main thread. If the
\* driver is inside subprocess.run, its `except:` clause kills the child
\* before the exception goes on; the child's finally clause does not run.
sys_exit ==
    /\ dexit' = 0
    /\ lpc' = [lpc EXCEPT ![DriverStage] =
                 IF @ \in {"optimize", "obtain", "sleep", "held", "write"}
                 THEN "killed" ELSE @]
    /\ UNCHANGED <<stage, lockOwner, writeLog>>

\* signal_handler (main.py 413-432), installed for SIGINT and SIGTERM.
SignalHandler ==
    /\ dpc = "running"
    /\ \E signum \in {"SIGTERM", "SIGINT"} :
        /\ IF IS_RENDER /\ signum = "SIGTERM"
           THEN cleanup_database_locks
           ELSE UNCHANGED <<checkpoint, walFiles>>
        /\ dpc' = signum
    /\ sys_exit
    /\ UNCHANGED IS_RENDER
    /\ UNCHANGED notShutdown

\* A step of a stage process while the driver runs.
StageStep == dpc = "running" /\ LockNext

ShutdownNext ==
    \/ StageStep
    \/ SignalHandler

-----------------------------------------------------------------------------
(***************************************************************************)
(* 3_size_cat.py, 4_action_label.py and 6_intention.py on the rows of one  *)
(* hand                                                                    *)
(***************************************************************************)

StageIdle ==
    /\ gyaml = "absent"
    /\ gsize = <<>>
    /\ glabel = <<>>
    /\ gbucket = <<>>
    /\ grc = 0 - 1
    /\ gpc = 0

\* The hands of the stage model: heads-up and three-handed.
StageHands == {h \in ParseHands : \A p \in DOMAIN h.stack : h.stack[p] >= 9}

StageInit ==
    /\ ph \in StageHands
    /\ pout = NotParsed
    /\ gyaml \in {"absent", "nomatch"}
    /\ gsize = <<>>
    /\ glabel = <<>>
    /\ gbucket = <<>>
    /\ grc = 0 - 1
    /\ gpc = 3

\* ---- 3_size_cat.py ----

\* POST and PRE: the buckets in the order of the dict, bounds in hundredths;
\* hi = 0 stands for inf.
POST ==
    << [lbl |-> "tiny", lo |-> 1, hi |-> 20], [lbl |-> "small", lo |-> 20, hi |-> 35],
       [lbl |-> "medium", lo |-> 35, hi |-> 55], [lbl |-> "big", lo |-> 55, hi |-> 85],
       [lbl |-> "pot", lo |-> 85, hi |-> 110], [lbl |-> "over", lo |-> 110, hi |-> 175],
       [lbl |-> "huge", lo |-> 175, hi |-> 0] >>

PRE ==
    << [lbl |-> "tiny", lo |-> 1, hi |-> 150], [lbl |-> "small", lo |-> 150, hi |-> 225],
       [lbl |-> "medium", lo |-> 225, hi |-> 300], [lbl |-> "big", lo |-> 300, hi |-> 375],
       [lbl |-> "pot", lo |-> 375, hi |-> 450], [lbl |-> "over", lo |-> 450, hi |-> 600],
       [lbl |-> "huge", lo |-> 600, hi |-> 0] >>

SIZING(street) == IF street = "preflop" THEN PRE ELSE POST

\* A size fraction num / den with den > 0; None is den = 0.
NoFrac == [num |-> 0, den |-> 0]

\* frac(row): amount_to / big_blind before the flop, else
\* invested_this_action / pot_before; None if the divisor is 0.
frac(row, big_blind) ==
    IF row.street = "preflop"
    THEN IF big_blind # 0 THEN [num |-> row.amount_to, den |-> big_blind] ELSE NoFrac
    ELSE IF row.pot_before # 0
         THEN [num |-> row.invested_this_action, den |-> row.pot_before]
         ELSE NoFrac

\* lo <= frac < hi
InBucket(f, b) ==
    /\ b.lo * f.den <= 100 * f.num
    /\ b.hi = 0 \/ 100 * f.num < b.hi * f.den

RECURSIVE FirstBucket(_, _)
FirstBucket(f, tbl) ==
    IF tbl = <<>> THEN "unknown"
    ELSE IF InBucket(f, Head(tbl)) THEN Head(tbl).lbl
    ELSE FirstBucket(f, Tail(tbl))

label(f, street) == FirstBucket(f, SIZING(street))

\* 3_size_cat.py main: size_cat of every row whose action is a raise or bet.
Stage3Size ==
    /\ gpc = 3
    /\ pout.ok
    /\ gsize' = [i \in DOMAIN pout.rows_a |->
                    LET r == pout.rows_a[i]
                        f == frac(r, ph.bb)
                    IN  IF r.action \notin {"r", "b"} THEN "null"
                        ELSE IF f = NoFrac THEN "unknown"
                        ELSE label(f, r.street)]
    /\ gpc' = 4
    /\ UNCHANGED <<gyaml, glabel, gbucket, grc>>
    /\ UNCHANGED parseVars
    /\ UNCHANGED notStage

\* ---- 4_action_label.py ----

\* f"{n}bet"
NBet(n) ==
    IF n \in 1..8
    THEN <<"1bet", "2bet", "3bet", "4bet", "5bet", "6bet", "7bet", "8bet">>[n]
    ELSE "9bet"

\* FALLBACK_RULES["preflop"].get(n, f"{n}bet")
FALLBACK_preflop(n) == IF n = 1 THEN "open" ELSE NBet(n)

\* PositionTracker.__init__: ORDER_6MAX filtered by the preflop actors.
PositionOrder(pre) ==
    SelectSeq(<<"UTG", "LJ", "HJ", "CO", "BTN", "SB", "BB">>,
              LAMBDA p : p \in pre /\ ~(p = "LJ" /\ "UTG" \in pre))

\* PositionTracker.ip_status; list.index of a position that did not act
\* before the flop raises ValueError: "error".
ip_status(order, street, pos) ==
    IF street = "preflop" THEN (IF pos = "BTN" THEN "IP" ELSE "OOP")
    ELSE IF pos \notin Range(order) THEN "error"
    ELSE LET flop_btn == IF "BTN" \in Range(order) THEN IndexOf(order, "BTN") - 1
                         ELSE 0
         IN  IF IndexOf(order, pos) - 1 = (flop_btn - 1) % Len(order)
             THEN "IP" ELSE "OOP"

\* ActionTracker.new_street
new_street(street) ==
    [street |-> street, raise_cnt |-> 0, bet_cnt |-> 0, checks |-> {}]

\* ActionTracker.process with a rule list of which no rule matches: the new
\* tracker state and the label.
process(tr0, street, pos, tok, ip) ==
    LET tr == IF street # tr0.street THEN new_street(street) ELSE tr0
    IN  IF tok = "x"
        THEN [tr |-> [tr EXCEPT !.checks = @ \cup {pos}], lab |-> "check"]
        ELSE IF tok = "f" THEN [tr |-> tr, lab |-> "fold"]
        ELSE IF tok = "c"
        THEN [tr |-> tr,
              lab |-> IF ip = "IP" /\ tr.raise_cnt = 0 /\ street # "preflop"
                      THEN "float" ELSE "call"]
        ELSE IF tok = "r"
        THEN LET n == tr.raise_cnt + 1
             IN  [tr |-> [tr EXCEPT !.raise_cnt = n],
                  lab |-> IF street = "preflop" THEN FALLBACK_preflop(n)
                          ELSE IF n = 1 THEN "raise" ELSE NBet(n)]
        ELSE IF tok = "b"
        THEN [tr |-> [tr EXCEPT !.bet_cnt = @ + 1], lab |-> "bet"]
        ELSE [tr |-> tr, lab |-> "unknown"]

\* process_hand, from row i on: the labels, or <<"error">> if ip_status
\* raised.
RECURSIVE process_rows(_, _, _, _, _)
process_rows(rs, i, tr, last_st, order) ==
    IF i > Len(rs) THEN <<>>
    ELSE LET r == rs[i]
             tr1 == IF r.street # last_st THEN new_street(r.street) ELSE tr
             ip == ip_status(order, r.street, r.position)
             res == process(tr1, r.street, r.position, r.action, ip)
             rest == process_rows(rs, i + 1, res.tr, r.street, order)
         IN  IF ip = "error" \/ rest = <<"error">> THEN <<"error">>
             ELSE <<res.lab>> \o rest

process_hand(rs) ==
    process_rows(rs, 1, new_street("preflop"), "none",
                 PositionOrder({rs[i].position :
                                  i \in {j \in DOMAIN rs : rs[j].street = "preflop"}}))

\* load_action_rules: sys.exit(message) if the file does not exist.
load_action_rules == IF gyaml = "absent" THEN "SystemExit" ELSE "rules"

\* 4_action_label.py main: the trial load_action_rules in try/except
\* Exception, then ActionTracker() whose __init__ calls load_action_rules,
\* then process_hand and the UPDATE of every hand, committed at the end.
Stage4Label ==
    /\ gpc = 4
    /\ IF load_action_rules = "SystemExit"
       THEN /\ grc' = 1
            /\ gpc' = 0
            /\ UNCHANGED glabel
       ELSE LET labs == process_hand(pout.rows_a)
            IN  IF labs = <<"error">>
                THEN /\ grc' = 1
                     /\ gpc' = 0
                     /\ UNCHANGED glabel
                ELSE /\ grc' = 0
                     /\ gpc' = 6
                     /\ glabel' = labs
    /\ UNCHANGED <<gyaml, gsize, gbucket>>
    /\ UNCHANGED parseVars
    /\ UNCHANGED notStage

\* ---- 6_intention.py ----

\* get_intention, step 3: the size of invested / pot_before; main passes
\* `pb or 1` for pot_before.
size_of(invested, pot_before) ==
    LET pb == IF pot_before = 0 THEN 1 ELSE pot_before
    IN  IF 100 * invested < 20 * pb THEN "tiny"
        ELSE IF 100 * invested < 35 * pb THEN "small"
        ELSE IF 100 * invested < 55 * pb THEN "medium"
        ELSE IF 100 * invested < 85 * pb THEN "big"
        ELSE IF 100 * invested < 110 * pb THEN "pot"
        ELSE IF 100 * invested < 175 * pb THEN "over"
        ELSE "huge"

\* 6_intention.py main: get_intention for every row with a label (and a
\* j_score); check, call and fold rows and rows whose street has no JSON
\* file return before step 3.
Stage6Intention ==
    /\ gpc = 6
    /\ \E json_exists \in BOOLEAN :
        gbucket' = [i \in DOMAIN pout.rows_a |->
                      LET r == pout.rows_a[i]
                      IN  IF glabel[i] \in {"check", "call", "fold"} \/ ~json_exists
                          THEN "none"
                          ELSE size_of(r.invested_this_action, r.pot_before)]
    /\ gpc' = 0
    /\ UNCHANGED <<gyaml, gsize, glabel, grc>>
    /\ UNCHANGED parseVars
    /\ UNCHANGED notStage

StageNext ==
    \/ ParseHand
    \/ Stage3Size
    \/ Stage4Label
    \/ Stage6Intention

-----------------------------------------------------------------------------
(***************************************************************************)
(* 8_materialise_dashboard.py: PLAYER_SUMMARY_SQL                          *)
(***************************************************************************)

SummaryIdle ==
    /\ sactions = {}
    /\ player_summary = {}
    /\ spc = "off"

SummaryInit ==
    /\ sactions = {}
    /\ player_summary = {}
    /\ spc = "import"

\* The player objects of a hand's "positions": stub is the player id, name
\* may be missing.
PlayerObjects == [stub : {"", "u1", "u2"}, name : {"", "n1", "n2"}]

\* parse_hand: pos2name[p] = i.get("name") or i["stub"]
pos2name(i) == IF i.name # "" THEN i.name ELSE i.stub

\* Stage 1 imports one more heads-up hand: an action row per seat, with
\* player_id and nickname as parse_hand sets them.
SummaryImport ==
    /\ spc = "import"
    /\ \E hid \in 1 .. MaxSummaryHands, sb \in PlayerObjects, bb \in PlayerObjects :
        /\ \A r \in sactions : r.hand_id # hid
        /\ sb.stub # bb.stub
        /\ sactions' = sactions \cup
              { [hand_id |-> hid, action_order |-> 0, position |-> "SB",
                 player_id |-> sb.stub, nickname |-> pos2name(sb)],
                [hand_id |-> hid, action_order |-> 1, position |-> "BB",
                 player_id |-> bb.stub, nickname |-> pos2name(bb)] }
    /\ UNCHANGED <<player_summary, spc>>
    /\ UNCHANGED notSummary

\* GROUP BY a.player_id, a.nickname
GroupKey(r) == [player_id |-> r.player_id, nickname |-> r.nickname]

\* PLAYER_SUMMARY_SQL: the counting columns of the rows it returns.
PLAYER_SUMMARY_SQL(acts) ==
    LET kept == {r \in acts : r.player_id # ""}
    IN  { [player_id |-> k.player_id, nickname |-> k.nickname,
           hands_played |-> Cardinality({r.hand_id : r \in {x \in kept : GroupKey(x) = k}}),
           total_actions |-> Cardinality({x \in kept : GroupKey(x) = k})]
          : k \in {GroupKey(r) : r \in kept} }

\* rebuild_tables, step 3: DROP TABLE IF EXISTS player_summary; CREATE TABLE
\* player_summary AS PLAYER_SUMMARY_SQL; CREATE INDEX (not unique).
SummaryBuild ==
    /\ spc \in {"import", "built"}
    /\ player_summary' = PLAYER_SUMMARY_SQL(sactions)
    /\ spc' = "built"
    /\ UNCHANGED sactions
    /\ UNCHANGED notSummary

\* Stage 1 runs again after a build.
SummaryResume ==
    /\ spc = "built"
    /\ spc' = "import"
    /\ UNCHANGED <<sactions, player_summary>>
    /\ UNCHANGED notSummary

SummaryNext ==
    \/ SummaryImport
    \/ SummaryBuild
    \/ SummaryResume

-----------------------------------------------------------------------------
(***************************************************************************)
(* 7_input_scores.py main: the loop around map_postflop_scores             *)
(***************************************************************************)

LoopIdle ==
    /\ qactions = <<>>
    /\ qscores = {}
    /\ qpc = "off"
    /\ qinfo = <<>>
    /\ postflop_updated_total = 0

NoScore == 0 - 1

\* A hand id is "Hand" + number or the bare number.
normalize_hand_id(h) == [h EXCEPT !.pre = FALSE]

denormalize_hand_id(h) == [h EXCEPT !.pre = TRUE]

Variants(h) == {h, normalize_hand_id(h), denormalize_hand_id(h)}

LoopHands == <<[pre |-> TRUE, n |-> 1], [pre |-> FALSE, n |-> 1]>>

\* Street, action, state_prefix and amount_to (as f"{amount_to}" prints it;
\* empty for None or 0) of the action rows of the store.
LoopKinds ==
    << [street |-> "preflop", action |-> "c", state_prefix |-> <<>>, amount_to |-> <<>>],
       [street |-> "flop",    action |-> "x", state_prefix |-> <<>>, amount_to |-> <<>>],
       [street |-> "flop",    action |-> "r", state_prefix |-> <<>>, amount_to |-> <<"5">>] >>

LoopRow(k) ==
    LET kind == LoopKinds[((k - 1) % Len(LoopKinds)) + 1]
        hid  == LoopHands[((k - 1) \div Len(LoopKinds)) + 1]
    IN  [hand_id |-> hid, street |-> kind.street, action |-> kind.action,
         state_prefix |-> kind.state_prefix, amount_to |-> kind.amount_to,
         postflop_score |-> NoScore]

\* postflop_scores rows: action_score may be NULL.
ScoreSpace ==
    [hand_id : Range(LoopHands), node_string : {<<"x">>, <<"k", "x">>, <<"r">>},
     action_score : {7}]
    \cup [hand_id : Range(LoopHands), node_string : {<<"x">>}, action_score : {NoScore}]

\* Stage 1 gives every hand of hand_info a hand_date.
LoopDates == {1, 2}

\* The store when Stage 7 reaches the postflop loop: actions rows (the index
\* is the rowid) without postflop_score, postflop_scores and hand_info.
LoopInit ==
    /\ \E n \in 0 .. MaxLoopRows :
         \E f \in [1 .. n -> 1 .. (Len(LoopKinds) * Len(LoopHands))] :
            /\ \A i \in 1 .. n : \A j \in 1 .. n : i <= j => f[i] <= f[j]
            /\ qactions = [i \in 1 .. n |-> LoopRow(f[i])]
    /\ qscores \in {S \in SUBSET ScoreSpace : Cardinality(S) <= MaxLoopScores}
    /\ qinfo \in [Range(LoopHands) -> LoopDates]
    /\ qpc = "count"
    /\ postflop_updated_total = 0

startswith(s, p) == Len(p) <= Len(s) /\ SubSeq(s, 1, Len(p)) = p

endswith(s, p) == Len(p) <= Len(s) /\ SubSeq(s, Len(s) - Len(p) + 1, Len(s)) = p

\* WHERE street != 'preflop' AND postflop_score IS NULL AND action IN (...)
Unscored(acts) ==
    {i \in DOMAIN acts : /\ acts[i].street # "preflop"
                         /\ acts[i].postflop_score = NoScore
                         /\ acts[i].action \in {"r", "c", "f", "x"}}

\* main, one turn of `while True`: count the rows that still lack a score.
LoopCount ==
    /\ qpc = "count"
    /\ qpc' = IF Cardinality(Unscored(qactions)) = 0 THEN "done" ELSE "map"
    /\ UNCHANGED <<qactions, qscores, qinfo, postflop_updated_total>>
    /\ UNCHANGED notLoop

\* SELECT MAX(h.hand_date) FROM hand_info h INNER JOIN postflop_scores ps
latest_date(scs, info) ==
    LET ds == {info[sc.hand_id] : sc \in scs} \ {0}
    IN  IF ds = {} THEN 0 ELSE Max(ds)

\* SELECT DISTINCT hand_date ... ORDER BY hand_date DESC LIMIT 3
recent_dates(info) ==
    LET ds == Range(info) \ {0}
    IN  {d \in ds : Cardinality({e \in ds : e >= d}) <= RecentLimit}

\* sql_get_actions / sql_get_actions_recent without the LIMIT.
sql_get_actions(acts, scs, info, dates) ==
    {i \in Unscored(acts) : /\ \E sc \in scs : sc.hand_id = acts[i].hand_id
                            /\ info[acts[i].hand_id] \in dates}

\* A mutation of sql_get_scores: rows without action_score are loaded too.
sql_get_scores_any(scs, hids) ==
    {sc \in scs : sc.hand_id \in UNION {Variants(h) : h \in hids}}

\* sql_get_scores
sql_get_scores(scs, hids) ==
    {sc \in scs : /\ sc.action_score # NoScore
                  /\ sc.hand_id \in UNION {Variants(h) : h \in hids}}

node_string(a) ==
    IF a.action = "r" /\ a.amount_to # <<>>
    THEN a.state_prefix \o <<"r">> \o a.amount_to
    ELSE a.state_prefix \o <<a.action>>

\* The score rows one action row can take its score from: direct key, else
\* a stored node that ends with the row's node, else one the row's node
\* starts with.  Which of several the dict holds or meets first is not fixed.
Matches(a, loaded) ==
    LET mine   == {sc \in loaded : Variants(sc.hand_id) \cap Variants(a.hand_id) # {}}
        direct == {sc \in mine : sc.node_string = node_string(a)}
        suffix == {sc \in mine : endswith(sc.node_string, node_string(a))}
        prefix == {sc \in mine : startswith(node_string(a), sc.node_string)}
    IN  IF direct # {} THEN direct ELSE IF suffix # {} THEN suffix ELSE prefix

\* map_postflop_scores and the rest of the turn.
LoopMap ==
    /\ qpc = "map"
    /\ LET latest == latest_date(qscores, qinfo)
           first  == IF latest = 0 THEN {}
                     ELSE sql_get_actions(qactions, qscores, qinfo, {latest})
           found  == IF latest = 0 \/ first # {} THEN first
                     ELSE sql_get_actions(qactions, qscores, qinfo, recent_dates(qinfo))
       IN  \E chosen \in SUBSET found :
              /\ Cardinality(chosen) = IF Cardinality(found) < ScoreLimit
                                       THEN Cardinality(found) ELSE ScoreLimit
              /\ LET loaded  == sql_get_scores(qscores, {qactions[i].hand_id : i \in chosen})
                     updates == {i \in chosen : Matches(qactions[i], loaded) # {}}
                 IN  /\ \E val \in [updates -> {NoScore, 7}] :
                           /\ \A i \in updates :
                                 \E sc \in Matches(qactions[i], loaded) : val[i] = sc.action_score
                           /\ qactions' = [i \in DOMAIN qactions |->
                                  IF i \in updates
                                  THEN [qactions[i] EXCEPT !.postflop_score = val[i]]
                                  ELSE qactions[i]]
                     /\ qpc' = IF Cardinality(updates) = 0 THEN "done" ELSE "count"
                     /\ postflop_updated_total' = postflop_updated_total + Cardinality(updates)
    /\ UNCHANGED <<qscores, qinfo>>
    /\ UNCHANGED notLoop

LoopNext ==
    \/ LoopCount
    \/ LoopMap


-----------------------------------------------------------------------------
(* Specifications *)

LaterIdle == StageIdle /\ SummaryIdle /\ LoopIdle

NewIdle == ParseIdle /\ ImportIdle /\ PreflopIdle /\ ShutdownIdle /\ LaterIdle

OldIdle == DriverIdle /\ PipelineIdle /\ LockIdle /\ EtlIdle /\ MatIdle /\ HttpIdle

InitDriver ==
    DriverInit /\ PipelineIdle /\ LockIdle /\ EtlIdle /\ MatIdle /\ HttpIdle /\ NewIdle

SpecDriver == InitDriver /\ [][DriverNext]_vars

InitPipeline ==
    PipelineInit /\ DriverIdle /\ LockIdle /\ EtlIdle /\ MatIdle /\ HttpIdle /\ NewIdle

SpecPipeline == InitPipeline /\ [][PipelineNext]_vars

InitLock ==
    LockInit /\ DriverIdle /\ PipelineIdle /\ EtlIdle /\ MatIdle /\ HttpIdle /\ NewIdle

SpecLock == InitLock /\ [][LockNext]_vars

\* The stage processes under a fair scheduler: a pipeline run is started
\* again and again, a started process takes its next step, and a turn of
\* _obtain_lock's loop that stays possible is taken.
FairLock ==
    /\ WF_vars(StartStage)
    /\ WF_vars(OptimizeDone)
    /\ SF_vars(ObtainLock)
    /\ WF_vars(LockRetry)
    /\ WF_vars(ReleaseLock)
    /\ WF_vars(StageExit)
    /\ WF_vars(Reap)

SpecLockFair == InitLock /\ [][LockNext]_vars /\ FairLock

InitEtl ==
    EtlInit /\ DriverIdle /\ PipelineIdle /\ LockIdle /\ MatIdle /\ HttpIdle /\ NewIdle

SpecEtl == InitEtl /\ [][EtlNext]_vars

InitMat ==
    MatInit /\ DriverIdle /\ PipelineIdle /\ LockIdle /\ EtlIdle /\ HttpIdle /\ NewIdle

SpecMat == InitMat /\ [][MatNext]_vars

InitHttp ==
    HttpInit /\ DriverIdle /\ PipelineIdle /\ LockIdle /\ EtlIdle /\ MatIdle /\ NewIdle

SpecHttp == InitHttp /\ [][HttpNext]_vars

InitParse == ParseInit /\ OldIdle /\ ImportIdle /\ PreflopIdle /\ ShutdownIdle /\ LaterIdle

SpecParse == InitParse /\ [][ParseNext]_vars

InitImport == ImportInit /\ OldIdle /\ ParseIdle /\ PreflopIdle /\ ShutdownIdle /\ LaterIdle

SpecImport == InitImport /\ [][ImportNext]_vars

InitPreflop == PreflopInit /\ OldIdle /\ ParseIdle /\ ImportIdle /\ ShutdownIdle /\ LaterIdle

SpecPreflop == InitPreflop /\ [][PreflopNext]_vars

InitShutdown ==
    ShutdownInit /\ LockInit /\ DriverIdle /\ PipelineIdle /\ EtlIdle /\ MatIdle
    /\ HttpIdle /\ ParseIdle /\ ImportIdle /\ PreflopIdle /\ LaterIdle

SpecShutdown == InitShutdown /\ [][ShutdownNext]_vars

InitStage ==
    StageInit /\ OldIdle /\ ImportIdle /\ PreflopIdle /\ ShutdownIdle
    /\ SummaryIdle /\ LoopIdle

SpecStage == InitStage /\ [][StageNext]_vars

InitSummary ==
    SummaryInit /\ OldIdle /\ ParseIdle /\ ImportIdle /\ PreflopIdle /\ ShutdownIdle
    /\ StageIdle /\ LoopIdle

SpecSummary == InitSummary /\ [][SummaryNext]_vars

InitLoop ==
    LoopInit /\ OldIdle /\ ParseIdle /\ ImportIdle /\ PreflopIdle /\ ShutdownIdle
    /\ StageIdle /\ SummaryIdle

SpecLoop == InitLoop /\ [][LoopNext]_vars

\* Stage 7 is a sequential program: a turn that can be taken is taken.
SpecLoopFair == SpecLoop /\ WF_vars(LoopNext)

-----------------------------------------------------------------------------
(* Properties of the ingestion driver *)

C2_LoginFailureExits ==
    prev.how = "loginfail" => (pc = "exit" /\ exitCode \in {1, 2})

\* C3 (as stated): a scrape that runs after a scrape of date d that ended on
\* a 404, a network error or a failed stage is a scrape of d again.
C3_RetrySameDate ==
    (prev.how \in {"notfound", "neterror", "stagefail"} /\ pc \in InRun)
        => day = prev.d

\* C4: when a stage fails during a batch, the rows of that batch (and all
\* rows committed before) stay in the store, and the run of that date fetches
\* and commits nothing more: scrape.main has returned.
C4_StageFailureStopsRun ==
    [][ /\ scripts_ok' = "False" => pc' \notin InRun
        /\ (pc = "scripts" /\ scripts_ok' = "False") =>
             /\ hands' = hands
             /\ hand_meta' = hand_meta
             /\ \A i \in 1..Len(rows) : check_duplicate(hands', rows[i].id)
             /\ \A i \in 1..Len(objs) : check_duplicate(hand_meta', objs[i].stub)
      ]_vars

\* C4 witness: a stage failed in the run of the previous date, whose rows are
\* in the store, and the driver is back in run_loop's sleep.
C4_Witness ==
    /\ scripts_ok = "False"
    /\ prev.how = "stagefail"
    /\ pc = "sleep_interval"
    /\ \E r \in hands : r.hand_date = prev.d

-----------------------------------------------------------------------------
(* Properties of the script runner *)

\* C5: the non-skipped stages are started one at a time in ascending stage
\* number; a stage is started only after every earlier non-skipped stage has
\* exited with status 0; after the first failure or timeout no later stage is
\* started and the run reports failure; a run that reports success has run
\* every non-skipped stage to exit status 0.
C5_StagesInOrder ==
    /\ \A i, j \in 1..Len(started) : i < j => started[i] < started[j]
    /\ \A i \in 1..Len(started) :
        /\ started[i] \notin skip_scripts
        /\ i < Len(started) => rc[started[i]] = "0"
        /\ \A k \in Stages :
            (k < started[i] /\ k \notin skip_scripts) => rc[k] = "0"
    /\ running # 0 => (started # <<>> /\ running = started[Len(started)]
                        /\ rc[running] = "none")
    /\ \A k \in Stages :
        rc[k] \notin {"none", "0"} =>
            /\ result = "False"
            /\ running = 0
            /\ started[Len(started)] = k
    /\ result = "True" => \A k \in Stages \ skip_scripts : rc[k] = "0"
    /\ result = "False" => \E k \in Stages : rc[k] \notin {"none", "0"}

\* C5 witness: with a skipped stage, a later stage failed after an earlier
\* one had exited 0, stages after it were due, and the run reported failure.
C5_Witness ==
    /\ result = "False"
    /\ skip_scripts # {}
    /\ Len(started) >= 2
    /\ \E k \in Stages \ skip_scripts : k > started[Len(started)]
    /\ \E k \in skip_scripts : k < started[Len(started)]

-----------------------------------------------------------------------------
(* Properties of the lock file and of the writes to the analytic store *)

C7_WritesUnderLock ==
    /\ \A p \in LockProcs : Writing(p) => lockOwner = p
    /\ \A i, j, k \in 1..Len(writeLog) :
        (i < j /\ j < k /\ writeLog[i] = writeLog[k]) => writeLog[j] = writeLog[i]

-----------------------------------------------------------------------------
(* Properties of the materializer and of the web application *)

\* C8 (as stated): the rebuild of the three materialized tables is all or
\* nothing: after a failed build every table that existed before it is still
\* the one from before, and a reader never sees a table missing that existed
\* before the build, nor such tables in different builds.
C8_RebuildAllOrNothing ==
    /\ mpc = "failed" => \A t \in MatTables : before[t] # 0 => tables[t] = before[t]
    /\ \A t \in MatTables : view.prior[t] # 0 => view.seen[t] # 0
    /\ \A t, u \in MatTables :
        (view.prior[t] # 0 /\ view.prior[u] # 0) => view.seen[t] = view.seen[u]

\* C9 (as stated): at most one materializer started by the web application
\* runs at a time, and while the materialize lock file exists no request
\* starts one.
C9_HttpBuildersExclusive ==
    [][ /\ Cardinality(Builders') <= 1
        /\ matLock => Builders' \subseteq Builders ]_vars

-----------------------------------------------------------------------------
(* Properties of the data of the analytic store *)

\* C10 (as stated): a pipeline run that follows a complete run with no new
\* hands in between changes no row of hand_info, actions, preflop_scores or
\* postflop_scores; and no step changes a derived column that is not NULL.
C10_SecondRunChangesNothing ==
    [][ /\ rerun => store' = store
        /\ \A i \in DOMAIN actions :
            /\ i \in DOMAIN actions'
            /\ \A col \in {"size_cat", "action_label", "j_score", "intention",
                           "preflop_score", "postflop_score"} :
                actions[i][col] # NULL => actions'[i][col] = actions[i][col]
      ]_vars

-----------------------------------------------------------------------------
(* Properties of Stage 1: the import loop and parse_hand *)

\* C11: a hand Stage 1 cannot parse is skipped and does not make the stage
\* fail: the stage never ends on the exception of a malformed hand, and when
\* it has ended with status 0 every hand of the primary store that can be
\* parsed is in hand_info.
C11_MalformedHandSkipped ==
    /\ ~(ipc = "failed" /\ ilast = "parse")
    /\ ipc = "done" =>
         \A i \in DOMAIN isrc :
            parse_hand(isrc[i]).ok => isrc[i].stub \in icommitted.hand_info

\* C12: in every committed state of the analytic store a hand is whole or
\* absent: if its hand_info row is committed, so are exactly the streets,
\* players and actions rows parse_hand made of it, and if it is not, none of
\* its rows is, whatever error or kill ended the stage.
C12_HandsWhole ==
    \A i \in DOMAIN isrc :
        LET h == isrc[i]
            p == parse_hand(h)
        IN  IF h.stub \in icommitted.hand_info
            THEN /\ p.ok
                 /\ {r \in icommitted.actions : r.hand_id = h.stub} = Range(p.rows_a)
                 /\ {r \in icommitted.streets : r.hand_id = h.stub} = Range(p.rows_s)
                 /\ {r \in icommitted.players : r.hand_id = h.stub} = p.rows_p
            ELSE /\ {r \in icommitted.actions : r.hand_id = h.stub} = {}
                 /\ {r \in icommitted.streets : r.hand_id = h.stub} = {}
                 /\ {r \in icommitted.players : r.hand_id = h.stub} = {}

\* The stage was killed or failed between the statements of a hand, after
\* other hands had been committed.
C12_Witness ==
    /\ ipc \in {"killed", "failed"}
    /\ ilast \in {"streets", "players", "actions", "scores", "fill"}
    /\ icommitted.hand_info # {}
    /\ icur \in DOMAIN isrc
    /\ isrc[icur].stub \notin icommitted.hand_info
    /\ parse_hand(isrc[icur]).rows_a # <<>>

\* C14: for a hand parse_hand accepts, the actions rows are as many as the
\* action characters (x, f, c, r) of situation_string, row i carries the
\* i-th of them, and action_order counts 0, 1, ..., n-1.
C14_ActionsDense ==
    pout.ok =>
        LET s == ph.situation_string
            at == {k \in DOMAIN s : s[k] \in {"x", "f", "c", "r"}}
        IN  /\ Len(pout.rows_a) = Cardinality(at)
            /\ \A i \in DOMAIN pout.rows_a :
                /\ pout.rows_a[i].action_order = i - 1
                /\ \E k \in at : /\ Cardinality({j \in at : j <= k}) = i
                                 /\ pout.rows_a[i].action = s[k]

\* A hand with three actions or more, some of them after a board.
C14_Witness ==
    /\ pout.ok
    /\ Len(pout.rows_a) >= 3
    /\ \E i \in DOMAIN pout.rows_a : pout.rows_a[i].street = "flop"

\* C15: on every actions row stack_after = stack_before - invested and
\* pot_after = pot_before + invested.
C15_StackPotArithmetic ==
    pout.ok =>
        \A i \in DOMAIN pout.rows_a :
            LET r == pout.rows_a[i]
            IN  /\ r.stack_after = r.stack_before - r.invested_this_action
                /\ r.pot_after = r.pot_before + r.invested_this_action

\* A hand with a raise and a call that put chips into the pot.
C15_Witness ==
    /\ pout.ok
    /\ \E i, j \in DOMAIN pout.rows_a :
        /\ pout.rows_a[i].action = "r"
        /\ pout.rows_a[i].invested_this_action > 0
        /\ pout.rows_a[j].action = "c"
        /\ pout.rows_a[j].invested_this_action > 0

\* C16: within a hand players_left never increases from a row to the next
\* and is zero on no row.
C16_PlayersLeftPositive ==
    pout.ok =>
        \A i \in DOMAIN pout.rows_a :
            /\ pout.rows_a[i].players_left > 0
            /\ i > 1 => pout.rows_a[i].players_left <= pout.rows_a[i - 1].players_left

\* C17: state_prefix of row N is what precedes the N-th action token in
\* situation_string: the tokens of the rows before it and the [board]
\* delimiter of every street that began before it, in order.
C17_StatePrefix ==
    pout.ok =>
        LET s == ph.situation_string
            at == {k \in DOMAIN s : s[k] \in {"x", "f", "c", "r"}}
        IN  \A i \in DOMAIN pout.rows_a :
                \A k \in at :
                    Cardinality({j \in at : j <= k}) = i
                        => pout.rows_a[i].state_prefix = SubSeq(s, 1, k - 1)

-----------------------------------------------------------------------------
(* Properties of the primary store *)

\* C13: a hand is written to the primary store only if its stub and its
\* blinds are non-empty and exactly one of is_cash and is_mtt is set.
C13_OnlyValidHandsStored ==
    \A r \in hands :
        /\ r.raw_json.stub # ""
        /\ r.raw_json.blinds # ""
        /\ r.raw_json.is_cash # r.raw_json.is_mtt

\* C19: outside the two commits of a batch, and also after the driver was
\* interrupted between them, every hands row has exactly one hand_meta row
\* of the same id.
C19_HandMetaOneToOne ==
    pc # "meta" =>
        \A r \in hands : Cardinality({m \in hand_meta : m.id = r.id}) = 1

-----------------------------------------------------------------------------
(* Properties of the preflop scores *)

\* C18: after Stages 2 and 7 every preflop raise row with solver_best "y"
\* carries the greatest frequency of the reference node of that action: the
\* rows of ranges_flat of the actor's position, combo and the sequence that
\* precedes the action.
C18_BestIsNodeMax ==
    fpc.at = "done" =>
        \A i \in DOMAIN facts :
            (facts[i].action = "r" /\ facts[i].solver_best = "y") =>
                LET tokens == preflop_tokenize(fhand.situation_string).toks
                    sq == to_seq(compress_folds(SubSeq(tokens, 1, i - 1)))
                    node == {row \in ranges_flat :
                                /\ row.position \in pos_variants(facts[i].position)
                                /\ row.combo = fhand.combo
                                /\ row.action_sequence = sq}
                IN  /\ node # {}
                    /\ facts[i].preflop_score = MaxFrequency(node)

-----------------------------------------------------------------------------
(* Properties of the shutdown *)

\* C20: after SIGTERM in the hosted mode the driver has issued the WAL
\* checkpoint, has exited with status 0, and the lock file of its stage is
\* not left behind.
C20_SigtermReleasesLocks ==
    (dpc = "SIGTERM" /\ IS_RENDER) =>
        /\ checkpoint # "none"
        /\ dexit = 0
        /\ lockOwner # DriverStage

-----------------------------------------------------------------------------
(* Properties of run_loop's sleep *)

\* C21: while the driver sleeps after finishing date d, the sleep is the one
\* of 10 minutes exactly when d is the current calendar date, and the one of
\* --sleep seconds otherwise.
C21_SleepByDate ==
    pc = "sleep_interval" => (prev.secs = TodaySleep <=> prev.d = prev.today)

-----------------------------------------------------------------------------
(* Properties of the stacks and the actors of parse_hand *)

\* C28: within a hand every action of a position after its first starts
\* with the stack its previous action ended with, also on a later street, so
\* that a recorded stack never grows.
C28_StackCarriedOver ==
    pout.ok =>
        \A i, j \in DOMAIN pout.rows_a :
            (/\ i < j
             /\ pout.rows_a[i].position = pout.rows_a[j].position
             /\ \A k \in (i + 1) .. (j - 1) :
                    pout.rows_a[k].position # pout.rows_a[i].position)
                => pout.rows_a[j].stack_before = pout.rows_a[i].stack_after

\* C29: a position that folded, or whose stack_after reached 0, is the
\* actor of no later action row of the hand.
C29_OnlyLivePositionsAct ==
    pout.ok =>
        \A i, j \in DOMAIN pout.rows_a :
            (/\ i < j
             /\ \/ pout.rows_a[i].action = "f"
                \/ pout.rows_a[i].stack_after = 0)
                => pout.rows_a[j].position # pout.rows_a[i].position

-----------------------------------------------------------------------------
(* Properties of the rows of Stage 2 *)

\* C23: the row Stage 2 wrote for a preflop actor has freq and best NULL if
\* ranges_flat has no row of the actor's node, freq 0 and best "n" if the
\* node has rows but none for the played action, and else the frequency
\* stored for the played action.
C23_FreqOfPlayedAction ==
    fpc.at \in {"stage7", "done"} =>
        \A i \in DOMAIN fhand.breadcrumb :
            LET tokens == preflop_tokenize(fhand.situation_string).toks
                sq == to_seq(compress_folds(SubSeq(tokens, 1, i - 1)))
                actor == fhand.breadcrumb[i]
                node == {row \in ranges_flat :
                            /\ row.position \in pos_variants(actor.pos)
                            /\ row.combo = fhand.combo
                            /\ row.action_sequence = sq}
                played == {row \in node : row.action = actor.act[1]}
            IN  \A w \in fscores :
                    (w.position = actor.pos /\ w.seq = sq) =>
                        IF node = {} THEN w.freq = NoFreq /\ w.best = "null"
                        ELSE IF played = {} THEN w.freq = 0 /\ w.best = "n"
                        ELSE w.freq \in {row.frequency : row \in played}

-----------------------------------------------------------------------------
(* Properties of the lock file after a kill *)

\* C27: if a Stage 1 process is killed while it holds the lock, some Stage 1
\* process holds the lock again later.
C27_KilledLockReacquired ==
    (\E p \in LockProcs : lockOwner = p /\ lpc[p] = "killed")
        ~> (\E q \in LockProcs : lpc[q] = "held")

-----------------------------------------------------------------------------
(* Properties of stages 3, 4 and 6 *)

\* C24: for every raise or bet row for which Stage 6 computed a size, that
\* size is the row's size_cat of Stage 3.
C24_BucketIsSizeCat ==
    gbucket # <<>> =>
        \A i \in DOMAIN pout.rows_a :
            (pout.rows_a[i].action \in {"r", "b"} /\ gbucket[i] # "none")
                => gbucket[i] = gsize[i]

\* C25: when action_rules.yml does not exist, Stage 4 ends with exit status
\* 0 and every action row of the hand has a label.
C25_FallbackWithoutRuleFile ==
    (gyaml = "absent" /\ grc # 0 - 1) =>
        /\ grc = 0
        /\ DOMAIN glabel = DOMAIN pout.rows_a
        /\ \A i \in DOMAIN glabel : glabel[i] # "null"

\* C26: when no rule matches, on every street after the flop the first
\* raise token is labelled "bet", a raise of a position that checked earlier
\* on the street "checkraise", and the other raises "raise", "3bet", ... in
\* order.
C26_FallbackPostflopLabels ==
    (gyaml = "nomatch" /\ grc = 0) =>
        \A i \in DOMAIN pout.rows_a :
            LET r == pout.rows_a[i]
                earlier == {j \in 1 .. (i - 1) : pout.rows_a[j].street = r.street}
                k == 1 + Cardinality({j \in earlier : pout.rows_a[j].action = "r"})
                checked == \E j \in earlier : /\ pout.rows_a[j].position = r.position
                                              /\ pout.rows_a[j].action = "x"
            IN  (r.street # "preflop" /\ r.action = "r") =>
                    glabel[i] = IF k = 1 THEN "bet"
                                ELSE IF checked THEN "checkraise"
                                ELSE IF k = 2 THEN "raise"
                                ELSE NBet(k)

-----------------------------------------------------------------------------
(* Properties of player_summary *)

\* C22: after a build player_summary has exactly one row for every
\* non-empty player_id of actions, and no row for any other id.
C22_OneRowPerPlayer ==
    spc = "built" =>
        /\ \A r \in sactions :
              r.player_id # "" =>
                  Cardinality({w \in player_summary : w.player_id = r.player_id}) = 1
        /\ \A w \in player_summary :
              w.player_id # "" /\ \E r \in sactions : r.player_id = w.player_id

-----------------------------------------------------------------------------
(* Properties of the postflop mapping loop of Stage 7 *)

\* C30: the postflop mapping loop always terminates: no step sets a
\* postflop_score back to NULL, every turn of map_postflop_scores either
\* sets the score of at least one row that had none or ends the loop, and
\* the loop is eventually left.
C30_LoopTerminates ==
    /\ [][ /\ Unscored(qactions') \subseteq Unscored(qactions)
           /\ qpc = "map" => \/ qpc' = "done"
                             \/ Unscored(qactions') # Unscored(qactions) ]_vars
    /\ <>(qpc = "done")

\* Two turns of the loop each scored a row and the loop was then left.
C30_Witness ==
    /\ qpc = "done"
    /\ postflop_updated_total >= 2
    /\ Cardinality({i \in DOMAIN qactions : qactions[i].postflop_score # NoScore}) >= 2

=============================================================================
